---- MODULE Spec2Model ----
(***************************************************************************)
(* The widget graph and input-event router of the demo's gui module:       *)
(* Widgets<T> of src/demo/src/gui/widgets.rs, with the widget flags of     *)
(* src/demo/src/gui/widget.rs.                                             *)
(*                                                                         *)
(* The router state is kept in one variable per field of Widgets<T>.  A    *)
(* handler is an operator from a router record (Cur) to the router record  *)
(* it leaves behind, written statement by statement after the Rust code;   *)
(* an action applies one handler to the current state.  `log` records the  *)
(* calls and callback invocations of the event being handled, `panicked`   *)
(* that the handler was left by a panic.                                   *)
(***************************************************************************)
EXTENDS Integers, Sequences, FiniteSets, TLC

\* Bound of the model: the number of events a behaviour handles.
MaxEvents == 4

\* The inputs of the events: mouse buttons (u32) and modifier sets.
Buttons == {1, 2}
Modifiers == {0, 1}

\* Option::None for an Option<Handle>.
NoHandle == 0

Flags ==
    {"IsFocused", "CanFocus", "MouseOver", "MoveAble", "Moving", "CanClickBehind",
     "AlwaysUseable", "Minimized", "Checked", "FocusClick", "IsPassword",
     "CanMoveWindow", "Clicked", "ClickAble", "AllowChildren", "InnerScroll"}

\* The kinds of callback a key is made for, and the variants a table holds.
CallBack == {"MousePress", "PositionChange"}

(***************************************************************************)
(* Scenes: the widget stores the router is started on.  Each is a          *)
(* consistent store (a child is listed exactly by its parent, the Z-Order  *)
(* lists every widget once, parents before children).  Bounds are          *)
(* <<x, y, width, height>>.                                                *)
(***************************************************************************)
Node(parent, children, actions, bounds) ==
    [parent |-> parent, children |-> children, actions |-> actions, bounds |-> bounds]

\* Two overlapping top-level focusable widgets, and a panel with two
\* overlapping focusable children (4, and 5 on top of everything) and a
\* child that is not focusable.
SceneOverlap ==
    [widgets |->
        (1 :> Node(NoHandle, <<>>, {"CanFocus", "ClickAble"}, <<2, 2, 20, 20>>)
      @@ 2 :> Node(NoHandle, <<>>, {"CanFocus", "ClickAble"}, <<10, 10, 20, 20>>)
      @@ 3 :> Node(NoHandle, <<4, 6, 5>>, {"CanFocus", "ClickAble"}, <<40, 2, 30, 30>>)
      @@ 4 :> Node(3, <<>>, {"CanFocus", "ClickAble"}, <<42, 4, 10, 10>>)
      @@ 5 :> Node(3, <<>>, {"CanFocus", "ClickAble"}, <<48, 4, 10, 10>>)
      @@ 6 :> Node(3, <<>>, {"ClickAble"}, <<42, 20, 10, 10>>)),
     zlist |-> <<1, 2, 3, 4, 6, 5>>,
     hidden |-> <<>>,
     internal |-> [h \in 1..6 |->
        [k \in CallBack |->
            IF k = "PositionChange" THEN "PositionChange"
            ELSE IF h \in {1, 2, 4} THEN "FocusChange" ELSE "MousePress"]],
     user |-> [h \in 1..6 |->
        [k \in CallBack |-> IF k = "MousePress" /\ h # 5 THEN "MousePress" ELSE "None"]],
     screen |-> <<100, 100>>,
     points |-> {<<5, 5>>, <<15, 15>>, <<44, 6>>, <<50, 8>>, <<45, 25>>, <<90, 90>>}]

\* Panels that let the window be dragged, with children that pass the
\* click to them; panel 1 can focus, panel 3 grants nothing, widget 5 has
\* no parent, widget 6 is loaded but hidden.
SceneDelegate ==
    [widgets |->
        (1 :> Node(NoHandle, <<2>>, {"CanFocus", "ClickAble", "CanMoveWindow"},
                   <<2, 2, 30, 30>>)
      @@ 2 :> Node(1, <<>>, {"ClickAble", "CanClickBehind", "MoveAble"}, <<4, 4, 10, 10>>)
      @@ 3 :> Node(NoHandle, <<4>>, {"ClickAble", "CanMoveWindow"}, <<40, 2, 30, 30>>)
      @@ 4 :> Node(3, <<>>, {"ClickAble", "CanClickBehind"}, <<42, 4, 10, 10>>)
      @@ 5 :> Node(NoHandle, <<>>,
                   {"ClickAble", "CanClickBehind", "AlwaysUseable", "MoveAble"},
                   <<2, 40, 10, 10>>)
      @@ 6 :> Node(NoHandle, <<>>, {"CanFocus", "ClickAble"}, <<20, 40, 10, 10>>)),
     zlist |-> <<1, 2, 3, 4, 5>>,
     hidden |-> <<6>>,
     internal |-> [h \in 1..6 |->
        [k \in CallBack |-> IF k = "PositionChange" THEN "PositionChange" ELSE "MousePress"]],
     user |-> [h \in 1..6 |->
        [k \in CallBack |-> IF k = "MousePress" THEN "MousePress" ELSE "None"]],
     screen |-> <<100, 100>>,
     points |-> {<<8, 8>>, <<20, 20>>, <<46, 8>>, <<6, 44>>}]

\* The ways a click that is passed to the parent is granted or not: child 2
\* through its AlwaysUseable parent, child 4 through its own AlwaysUseable,
\* child 8 can focus, grandchild 7 through the CanFocus of its grandparent.
SceneGrant ==
    [widgets |->
        (1 :> Node(NoHandle, <<2>>, {"ClickAble", "CanMoveWindow", "AlwaysUseable"},
                   <<2, 2, 30, 30>>)
      @@ 2 :> Node(1, <<>>, {"ClickAble", "CanClickBehind"}, <<4, 4, 10, 10>>)
      @@ 3 :> Node(NoHandle, <<4, 8>>, {"ClickAble", "CanMoveWindow"}, <<40, 2, 30, 30>>)
      @@ 4 :> Node(3, <<>>, {"ClickAble", "CanClickBehind", "AlwaysUseable"},
                   <<42, 4, 10, 10>>)
      @@ 5 :> Node(NoHandle, <<6>>, {"CanFocus", "ClickAble"}, <<2, 40, 40, 40>>)
      @@ 6 :> Node(5, <<7>>, {"ClickAble", "CanMoveWindow"}, <<4, 42, 30, 30>>)
      @@ 7 :> Node(6, <<>>, {"ClickAble", "CanClickBehind"}, <<6, 44, 10, 10>>)
      @@ 8 :> Node(3, <<>>, {"ClickAble", "CanClickBehind", "CanFocus"},
                   <<42, 18, 10, 10>>)),
     zlist |-> <<1, 2, 3, 4, 8, 5, 6, 7>>,
     hidden |-> <<>>,
     internal |-> [h \in 1..8 |->
        [k \in CallBack |-> IF k = "PositionChange" THEN "PositionChange" ELSE "MousePress"]],
     user |-> [h \in 1..8 |->
        [k \in CallBack |-> IF k = "MousePress" /\ h # 3 THEN "MousePress" ELSE "None"]],
     screen |-> <<100, 100>>,
     points |-> {<<8, 8>>, <<46, 8>>, <<46, 22>>, <<10, 48>>}]

\* A movable, focusable top-level widget with children 2, 3 and 6, child 2
\* having child 4, in a 40 x 40 window; widget 5 is movable and clickable
\* without being focusable.  Widget 3 has no PositionChange callback.
SceneDrag ==
    [widgets |->
        (1 :> Node(NoHandle, <<2, 3, 6>>, {"CanFocus", "ClickAble", "MoveAble"},
                   <<10, 10, 20, 20>>)
      @@ 2 :> Node(1, <<4>>, {}, <<12, 12, 6, 6>>)
      @@ 3 :> Node(1, <<>>, {}, <<20, 12, 6, 6>>)
      @@ 4 :> Node(2, <<>>, {}, <<13, 13, 2, 2>>)
      @@ 5 :> Node(NoHandle, <<>>, {"ClickAble", "MoveAble", "AlwaysUseable"},
                   <<32, 32, 4, 4>>)
      @@ 6 :> Node(1, <<>>, {}, <<20, 20, 4, 4>>)),
     zlist |-> <<1, 2, 4, 3, 6, 5>>,
     hidden |-> <<>>,
     internal |-> [h \in 1..6 |->
        [k \in CallBack |->
            IF k = "PositionChange" THEN (IF h = 3 THEN "None" ELSE "PositionChange")
            ELSE "FocusChange"]],
     user |-> [h \in 1..6 |->
        [k \in CallBack |-> IF k = "MousePress" THEN "MousePress" ELSE "None"]],
     screen |-> <<40, 40>>,
     points |-> {<<15, 15>>, <<10, 15>>, <<5, 15>>, <<-5, 15>>, <<25, 15>>, <<34, 34>>}]

\* A focusable widget that is movable and also lets the window be dragged,
\* with one child, in a 40 x 40 window.
SceneWindowDrag ==
    [widgets |->
        (1 :> Node(NoHandle, <<2>>, {"CanFocus", "ClickAble", "MoveAble", "CanMoveWindow"},
                   <<10, 10, 20, 20>>)
      @@ 2 :> Node(1, <<>>, {}, <<12, 12, 6, 6>>)),
     zlist |-> <<1, 2>>,
     hidden |-> <<>>,
     internal |-> [h \in 1..2 |->
        [k \in CallBack |-> IF k = "PositionChange" THEN "PositionChange" ELSE "MousePress"]],
     user |-> [h \in 1..2 |->
        [k \in CallBack |-> IF k = "MousePress" THEN "MousePress" ELSE "None"]],
     screen |-> <<40, 40>>,
     points |-> {<<15, 15>>, <<18, 20>>, <<35, 36>>}]

\* Ancestor chains: widget 3 is a CanClickBehind grandchild of the
\* AlwaysUseable widget 1 (its parent 2 grants nothing); widget 5 is the
\* child of widget 4, which has CanFocus and FocusClick.
SceneAncestors ==
    [widgets |->
        (1 :> Node(NoHandle, <<2>>, {"ClickAble", "AlwaysUseable"}, <<2, 2, 30, 30>>)
      @@ 2 :> Node(1, <<3>>, {"ClickAble", "CanClickBehind"}, <<4, 4, 20, 20>>)
      @@ 3 :> Node(2, <<>>, {"ClickAble", "CanClickBehind"}, <<10, 10, 6, 6>>)
      @@ 4 :> Node(NoHandle, <<5>>, {"CanFocus", "FocusClick", "ClickAble"},
                   <<40, 2, 30, 30>>)
      @@ 5 :> Node(4, <<>>, {"ClickAble", "MoveAble"}, <<44, 6, 10, 10>>)),
     zlist |-> <<1, 2, 3, 4, 5>>,
     hidden |-> <<>>,
     internal |-> [h \in 1..5 |->
        [k \in CallBack |-> IF k = "PositionChange" THEN "PositionChange" ELSE "MousePress"]],
     user |-> [h \in 1..5 |->
        [k \in CallBack |-> IF k = "MousePress" THEN "MousePress" ELSE "None"]],
     screen |-> <<100, 100>>,
     points |-> {<<6, 6>>, <<12, 12>>, <<50, 12>>}]

\* Two movable widgets: widget 1 lies under the pointer's first position
\* and takes clicks without being focusable, widget 2 is focusable.
SceneTwoMovers ==
    [widgets |->
        (1 :> Node(NoHandle, <<>>, {"ClickAble", "MoveAble", "AlwaysUseable"},
                   <<-2, -2, 4, 4>>)
      @@ 2 :> Node(NoHandle, <<>>, {"CanFocus", "ClickAble", "MoveAble"},
                   <<10, 10, 10, 10>>)),
     zlist |-> <<1, 2>>,
     hidden |-> <<>>,
     internal |-> [h \in 1..2 |->
        [k \in CallBack |-> IF k = "PositionChange" THEN "PositionChange" ELSE "MousePress"]],
     user |-> [h \in 1..2 |->
        [k \in CallBack |-> IF k = "MousePress" THEN "MousePress" ELSE "None"]],
     screen |-> <<40, 40>>,
     points |-> {<<15, 15>>, <<17, 16>>}]

Scenes ==
    {SceneOverlap, SceneDelegate, SceneGrant, SceneDrag, SceneWindowDrag, SceneAncestors,
     SceneTwoMovers}

VARIABLES
    widgets,        \* Slab<WidgetRef>: handle -> node
    callbacks,      \* HashMap<CallBackKey, InternalCallBacks>, per widget and key
    user_callbacks, \* HashMap<CallBackKey, CallBacks<T>>, per widget and key
    name_map,       \* HashMap<Identity, Handle>: the named handles
    zlist,          \* VecDeque<Handle>, rendering order
    visible,        \* VecDeque<Handle>: the visible top widgets
    hidden,         \* Vec<Handle>: the loaded but hidden top widgets
    focused, over, clicked,     \* Option<Handle>
    mouse_clicked, mouse_pos, new_mouse_pos,
    moving, button, modifier,
    screen,         \* the window size the caller passes to event_mouse_position
    points,         \* the pointer positions the input backend reports
    log,            \* calls and callback invocations of the last event
    panicked,       \* the last handler was left by a panic
    event,          \* the last event handled
    steps,          \* events handled so far
    pc,             \* the loop the handler in progress is in; idle between events
    input,          \* InputHandler of src/input/src/handler.rs
    textures,       \* MapTextures of src/demo/src/graphics/maps/texture.rs
    rect            \* Rect of src/graphics/src/shapes/rectangle.rs

vars ==
    <<widgets, callbacks, user_callbacks, name_map, zlist, visible, hidden,
      focused, over, clicked, mouse_clicked, mouse_pos, new_mouse_pos, moving, button, modifier,
      screen, points, log, panicked, event, steps, pc, input, textures, rect>>

\* No handler is in progress: the caller is between two events.
Idle == [op |-> "idle"]

\* The router as one record: the argument and result of every handler.
\* refs and muts count, per node, the RefCell borrows (Ref, RefMut) that are
\* alive at the current statement of the handler.
Cur ==
    [widgets |-> widgets, callbacks |-> callbacks, user_callbacks |-> user_callbacks,
     name_map |-> name_map, zlist |-> zlist, visible |-> visible, hidden |-> hidden,
     focused |-> focused, over |-> over, clicked |-> clicked,
     mouse_clicked |-> mouse_clicked, mouse_pos |-> mouse_pos,
     new_mouse_pos |-> new_mouse_pos, moving |-> moving, button |-> button,
     modifier |-> modifier, log |-> <<>>, panicked |-> FALSE,
     refs |-> [h \in DOMAIN widgets |-> 0], muts |-> [h \in DOMAIN widgets |-> 0]]

Apply(s, ev) ==
    /\ widgets' = s.widgets
    /\ callbacks' = s.callbacks
    /\ user_callbacks' = s.user_callbacks
    /\ name_map' = s.name_map
    /\ zlist' = s.zlist
    /\ visible' = s.visible
    /\ hidden' = s.hidden
    /\ focused' = s.focused
    /\ over' = s.over
    /\ clicked' = s.clicked
    /\ mouse_clicked' = s.mouse_clicked
    /\ mouse_pos' = s.mouse_pos
    /\ new_mouse_pos' = s.new_mouse_pos
    /\ moving' = s.moving
    /\ button' = s.button
    /\ modifier' = s.modifier
    /\ log' = s.log
    /\ panicked' = s.panicked
    /\ event' = ev
    /\ steps' = steps + 1
    /\ pc' = Idle
    /\ UNCHANGED <<screen, points, input, textures, rect>>

(***************************************************************************)
(* The objects beside the router, as their constructors leave them.        *)
(***************************************************************************)
\* Option::None, and Some(v).
None == <<>>
Some(v) == <<v>>

\* InputHandler::new
InputHandler_new ==
    [keys |-> {}, scan_codes |-> {}, mouse_buttons |-> {},
     mouse_position |-> None, last_mouse_position |-> None,
     mouse_delta |-> <<0, 0>>, mouse_wheel |-> <<0, 0>>]

\* MapTextures::new: unused_ids = (0..count).collect(); `held` are the ids
\* the callers hold, `misused` that an id nobody held was given back.
MapTextures_new(count) ==
    [unused_ids |-> [i \in 1..count |-> i - 1], count |-> count,
     held |-> {}, misused |-> FALSE]

\* Rect::default(): the derived one (changed = false) or the hand-written
\* one of lines 23-38 (changed: true).
Rect_default(changed) ==
    [position |-> <<0, 0, 0>>, size |-> <<0, 0>>, border_width |-> 0,
     container |-> None, container_uv |-> <<0, 0, 0, 0>>,
     border |-> None, border_uv |-> <<0, 0, 0, 0>>,
     radius |-> 0, bytes |-> <<>>, changed |-> changed]

\* The objects beside the router are constructed and not used.
Beside ==
    /\ input = InputHandler_new
    /\ textures = MapTextures_new(0)
    /\ rect = Rect_default(FALSE)

\* Widgets::new, then the insertion of a scene's widgets.
Init ==
    \E sc \in Scenes :
        /\ widgets = sc.widgets
        /\ callbacks = sc.internal
        /\ user_callbacks = sc.user
        /\ name_map = [h \in DOMAIN sc.widgets |-> h]
        /\ zlist = sc.zlist
        /\ visible = SelectSeq(sc.zlist, LAMBDA h : sc.widgets[h].parent = NoHandle)
        /\ hidden = sc.hidden
        /\ screen = sc.screen
        /\ points = sc.points
        /\ focused = NoHandle
        /\ over = NoHandle
        /\ clicked = NoHandle
        /\ mouse_clicked = <<0, 0>>
        /\ mouse_pos = <<0, 0>>
        /\ new_mouse_pos = <<0, 0>>
        /\ moving = FALSE
        /\ button = 0
        /\ modifier = 0
        /\ log = <<>>
        /\ panicked = FALSE
        /\ event = [kind |-> "new", pos |-> <<0, 0>>, arg |-> 0]
        /\ steps = 0
        /\ pc = Idle
        /\ Beside

\* An event is handled while the process lives and the bound allows.
CanHandle == ~panicked /\ steps < MaxEvents

(***************************************************************************)
(* Helpers of the handlers.                                                *)
(***************************************************************************)
Handles(s) == DOMAIN s.widgets

get(s, h, flag) == flag \in s.widgets[h].actions

SetFlag(s, h, flag, on) ==
    [s EXCEPT !.widgets[h].actions =
        IF on THEN @ \cup {flag} ELSE @ \ {flag}]

\* Control::check_mouse_bounds: the point lies within the widget's bounds.
check_mouse_bounds(s, h, p) ==
    LET b == s.widgets[h].bounds
    IN  /\ b[1] <= p[1] /\ p[1] <= b[1] + b[3]
        /\ b[2] <= p[2] /\ p[2] <= b[2] + b[4]

Entry(kind, tier, h, flag, pos, s) ==
    [kind |-> kind, tier |-> tier, h |-> h, flag |-> flag, pos |-> pos,
     button |-> s.button, modifier |-> s.modifier]

Logged(s, kind, tier, h, flag) ==
    [s EXCEPT !.log = Append(@, Entry(kind, tier, h, flag, <<0, 0>>, s))]

\* A panic that is swallowed: the handler carries on.
Panic_resumed(s, what) == s

\* A panic leaves the handler: every later statement is skipped.
Panic(s, what) ==
    [Logged(s, "panic", what, NoHandle, FALSE) EXCEPT !.panicked = TRUE]

\* RefCell::borrow and RefCell::borrow_mut succeed only under these.
CanBorrow(s, h) == s.muts[h] = 0
CanBorrowMut(s, h) == s.muts[h] = 0 /\ s.refs[h] = 0
HoldRef(s, h) == [s EXCEPT !.refs[h] = @ + 1]
DropRef(s, h) == [s EXCEPT !.refs[h] = @ - 1]
HoldMut(s, h) == [s EXCEPT !.muts[h] = @ + 1]
DropMut(s, h) == [s EXCEPT !.muts[h] = @ - 1]

\* Iterator::position: the first index holding h, 0 for None.
Position(seq, h) ==
    IF \E i \in 1..Len(seq) : seq[i] = h
    THEN CHOOSE i \in 1..Len(seq) : seq[i] = h /\ \A j \in 1..(i - 1) : seq[j] # h
    ELSE 0

\* VecDeque::remove(pos)
Remove(seq, pos) == [i \in 1..(Len(seq) - 1) |-> IF i < pos THEN seq[i] ELSE seq[i + 1]]

\* RaiseToTop with the remove left out: the handle is pushed a second time.
RaiseToTop_dup(seq, h) ==
    IF Position(seq, h) # 0 THEN Append(seq, h) ELSE seq

\* RaiseToTop with the push_back left out: the handle is dropped.
RaiseToTop_drop(seq, h) ==
    LET pos == Position(seq, h)
    IN  IF pos # 0 THEN Remove(seq, pos) ELSE seq

\* remove(pos) then push_back(handle), as the focus functions do on zlist
\* and on the parent's children.
RaiseToTop(seq, h) ==
    LET pos == Position(seq, h)
    IN  IF pos # 0 THEN Append(Remove(seq, pos), h) ELSE seq

\* fn get_widget: the lookup of a handle the store does not hold is fatal.
get_widget(s, h) ==
    IF h \in Handles(s) THEN s
    ELSE Panic(s, "ID Existed but widget does not exist?")

(***************************************************************************)
(* Callback dispatch.                                                      *)
(***************************************************************************)
\* widget_mouse_press_callbacks with the two tiers exchanged: the user
\* table first, then the internal one.
widget_mouse_press_callbacks_user_first(s, h, pressed) ==
    IF s.panicked THEN s
    ELSE IF ~CanBorrowMut(s, h) THEN Panic(s, "BorrowMutError")
    ELSE
        LET s1 == IF s.user_callbacks[h]["MousePress"] = "MousePress"
                  THEN Logged(s, "MousePress", "user", h, pressed)
                  ELSE s
        IN  IF s1.callbacks[h]["MousePress"] = "MousePress"
            THEN Logged(s1, "MousePress", "internal", h, pressed)
            ELSE s1

\* fn widget_mouse_press_callbacks: the internal table first, then the
\* user table, both under the widget's MousePress key.
widget_mouse_press_callbacks(s, h, pressed) ==
    IF s.panicked THEN s
    ELSE IF ~CanBorrowMut(s, h) THEN Panic(s, "BorrowMutError")
    ELSE
        LET s1 == IF s.callbacks[h]["MousePress"] = "MousePress"
                  THEN Logged(s, "MousePress", "internal", h, pressed)
                  ELSE s
        IN  IF s1.user_callbacks[h]["MousePress"] = "MousePress"
            THEN Logged(s1, "MousePress", "user", h, pressed)
            ELSE s1

\* fn widget_focused_callback: sets IsFocused and Router.focused whatever
\* `focused` is, then calls the FocusChange entry found under the widget's
\* MousePress key.
widget_focused_callback(s, h, is_focused) ==
    IF s.panicked THEN s
    ELSE IF ~CanBorrowMut(s, h) THEN Panic(s, "BorrowMutError")
    ELSE
        LET s1 == [SetFlag(s, h, "IsFocused", TRUE) EXCEPT !.focused = h]
        IN  IF s1.callbacks[h]["MousePress"] = "FocusChange"
            THEN Logged(s1, "FocusChange", "internal", h, is_focused)
            ELSE s1

(***************************************************************************)
(* Press.                                                                  *)
(***************************************************************************)
\* widget_set_clicked without the CanClickBehind branch: the target itself
\* is clicked.
widget_set_clicked_no_delegate(s, h) ==
    IF s.panicked THEN s
    ELSE
        LET s0 == Logged(s, "set_clicked", "call", h, FALSE)
            in_bounds == check_mouse_bounds(s0, h, s0.mouse_clicked)
            s1 == IF get(s0, h, "CanMoveWindow") /\ in_bounds
                  THEN [s0 EXCEPT !.moving = TRUE]
                  ELSE s0
            s2 == IF get(s1, h, "MoveAble") /\ in_bounds
                  THEN SetFlag(s1, h, "Moving", TRUE)
                  ELSE s1
        IN  widget_mouse_press_callbacks(s2, h, TRUE)

\* widget_set_clicked whose test of line 234 leaves out MoveAble.
widget_set_clicked_always_moving(s, h) ==
    IF s.panicked THEN s
    ELSE
        LET s0 == Logged(s, "set_clicked", "call", h, FALSE)
            in_bounds == check_mouse_bounds(s0, h, s0.mouse_clicked)
            s1 == IF get(s0, h, "CanMoveWindow") /\ in_bounds
                  THEN [s0 EXCEPT !.moving = TRUE]
                  ELSE s0
            parent_handle == s1.widgets[h].parent
        IN  IF get(s1, h, "CanClickBehind")
            THEN IF parent_handle # NoHandle
                 THEN LET s3 == IF /\ get(s1, parent_handle, "CanMoveWindow")
                                   /\ check_mouse_bounds(s1, parent_handle,
                                                         s1.mouse_clicked)
                                THEN [s1 EXCEPT !.moving = TRUE]
                                ELSE s1
                      IN  widget_mouse_press_callbacks(
                              [s3 EXCEPT !.clicked = parent_handle], parent_handle, TRUE)
                 ELSE s1
            ELSE widget_mouse_press_callbacks(
                     IF in_bounds THEN SetFlag(s1, h, "Moving", TRUE) ELSE s1, h, TRUE)

\* widget_set_clicked with the MoveAble test of line 234 moved in front of
\* the CanClickBehind branch.
widget_set_clicked_moving_first(s, h) ==
    IF s.panicked THEN s
    ELSE
        LET s0 == Logged(s, "set_clicked", "call", h, FALSE)
            in_bounds == check_mouse_bounds(s0, h, s0.mouse_clicked)
            s1 == IF get(s0, h, "CanMoveWindow") /\ in_bounds
                  THEN [s0 EXCEPT !.moving = TRUE]
                  ELSE s0
            sm == IF get(s1, h, "MoveAble") /\ in_bounds
                  THEN SetFlag(s1, h, "Moving", TRUE)
                  ELSE s1
            parent_handle == sm.widgets[h].parent
        IN  IF get(sm, h, "CanClickBehind")
            THEN IF parent_handle # NoHandle
                 THEN LET s3 == IF /\ get(sm, parent_handle, "CanMoveWindow")
                                   /\ check_mouse_bounds(sm, parent_handle,
                                                         sm.mouse_clicked)
                                THEN [sm EXCEPT !.moving = TRUE]
                                ELSE sm
                      IN  widget_mouse_press_callbacks(
                              [s3 EXCEPT !.clicked = parent_handle], parent_handle, TRUE)
                 ELSE sm
            ELSE widget_mouse_press_callbacks(sm, h, TRUE)

\* fn widget_set_clicked
widget_set_clicked(s, h) ==
    IF s.panicked THEN s
    ELSE
        LET s0 == Logged(s, "set_clicked", "call", h, FALSE)
            in_bounds == check_mouse_bounds(s0, h, s0.mouse_clicked)
            s1 == IF get(s0, h, "CanMoveWindow") /\ in_bounds
                  THEN [s0 EXCEPT !.moving = TRUE]
                  ELSE s0
            parent_handle == s1.widgets[h].parent
        IN  IF get(s1, h, "CanClickBehind")
            THEN IF parent_handle # NoHandle
                 THEN \* control.borrow() of the `if let` lives to the return
                      LET s2 == get_widget(HoldRef(s1, h), parent_handle)
                          s3 == IF s2.panicked THEN s2
                                ELSE IF /\ get(s2, parent_handle, "CanMoveWindow")
                                        /\ check_mouse_bounds(s2, parent_handle,
                                                              s2.mouse_clicked)
                                THEN [s2 EXCEPT !.moving = TRUE]
                                ELSE s2
                          s4 == IF s3.panicked THEN s3
                                ELSE [s3 EXCEPT !.clicked = parent_handle]
                          s5 == widget_mouse_press_callbacks(s4, parent_handle, TRUE)
                      IN  IF s5.panicked THEN s5 ELSE DropRef(s5, h)
                 ELSE s1
            ELSE
                LET s2 == IF get(s1, h, "MoveAble") /\ in_bounds
                          THEN SetFlag(s1, h, "Moving", TRUE)
                          ELSE s1
                IN  widget_mouse_press_callbacks(s2, h, TRUE)

\* The child-sequence block with the handle pushed a second time instead of
\* moved, and no borrow taken.
raise_in_parent_dup(s, h) ==
    IF s.panicked \/ s.widgets[h].parent = NoHandle THEN s
    ELSE [s EXCEPT !.widgets[s.widgets[h].parent].children = Append(@, h)]

\* The parent's child sequence in widget_set_focus and widget_manual_focus:
\*     if let Some(pos) = parent.borrow().iter().position(..) {
\*         parent.borrow_mut().children.remove(pos); ..push_back(handle) }
\* The Ref made in the scrutinee lives to the end of the block.
raise_in_parent(s, h) ==
    IF s.panicked THEN s
    ELSE
        LET parent_handle == s.widgets[h].parent
        IN  IF parent_handle = NoHandle THEN s
            ELSE
                LET s1 == get_widget(HoldRef(s, h), parent_handle)
                IN  IF s1.panicked THEN s1
                    ELSE IF ~CanBorrow(s1, parent_handle) THEN Panic(s1, "BorrowError")
                    ELSE
                        LET s2 == HoldRef(s1, parent_handle)
                            pos == Position(s2.widgets[parent_handle].children, h)
                            s3 == IF pos = 0 THEN s2
                                  ELSE IF ~CanBorrowMut(s2, parent_handle)
                                  THEN Panic(s2, "BorrowMutError")
                                  ELSE [s2 EXCEPT !.widgets[parent_handle].children =
                                            Append(Remove(@, pos), h)]
                        IN  IF s3.panicked THEN s3
                            ELSE DropRef(DropRef(s3, parent_handle), h)

\* `self.get_widget(parent_handle)` after the block that binds
\* parent_handle has ended: the name denotes the control's parent where the
\* control has one, and any handle x of the store where it has none.
unbound_parent_handle(s, h, x) ==
    IF s.widgets[h].parent # NoHandle THEN s.widgets[h].parent ELSE x

\* fn widget_set_focus
widget_set_focus(s, h, x) ==
    IF s.panicked THEN s
    ELSE
        LET s0 == Logged(s, "set_focus", "call", h, FALSE)
            s1 == [s0 EXCEPT !.zlist = RaiseToTop(@, h)]
            s2 == raise_in_parent(s1, h)
            s3 == IF s2.panicked \/ s2.focused = NoHandle THEN s2
                  ELSE LET p == unbound_parent_handle(s2, h, x)
                           s2a == get_widget(s2, p)
                       IN  widget_focused_callback(s2a, p, FALSE)
            s4 == widget_focused_callback(s3, h, TRUE)
        IN  widget_set_clicked(s4, h)

\* is_parent_focused granting every widget.
is_parent_focused_always(s, h) == <<TRUE, s>>

\* fn is_parent_focused: <<granted, router>>.  The inner test repeats the
\* outer one, so its else branch (FocusClick) is never taken.
\* The walk without the branch of lines 296-302: only CanFocus grants.
RECURSIVE parent_walk_focus_only(_, _, _)
parent_walk_focus_only(s, h, parent_opt) ==
    IF parent_opt = NoHandle THEN <<FALSE, s>>
    ELSE IF parent_opt \notin Handles(s)
    THEN <<FALSE, Panic(s, "ID Existed but widget does not exist?")>>
    ELSE IF get(s, parent_opt, "CanFocus") THEN <<TRUE, s>>
    ELSE parent_walk_focus_only(s, h, s.widgets[parent_opt].parent)

RECURSIVE parent_walk(_, _, _)
parent_walk(s, h, parent_opt) ==
    IF parent_opt = NoHandle THEN <<FALSE, s>>
    ELSE
        LET s1 == get_widget(s, parent_opt)
        IN  IF s1.panicked THEN <<FALSE, s1>>
            ELSE IF get(s1, parent_opt, "CanFocus")
            THEN IF get(s1, parent_opt, "CanFocus")
                 THEN <<TRUE, s1>>
                 ELSE <<TRUE, IF get(s1, parent_opt, "FocusClick")
                              THEN widget_set_clicked(s1, parent_opt)
                              ELSE s1>>
            ELSE IF /\ get(s1, parent_opt, "AlwaysUseable")
                    /\ get(s1, parent_opt, "ClickAble")
                    /\ s1.widgets[h].parent = parent_opt
                    /\ get(s1, h, "CanClickBehind")
            THEN <<TRUE, s1>>
            ELSE parent_walk(s1, h, s1.widgets[parent_opt].parent)

is_parent_focused(s, h) ==
    IF get(s, h, "AlwaysUseable") THEN <<TRUE, s>>
    ELSE parent_walk(s, h, s.widgets[h].parent)

\* mouse_press_event without the test of line 313: a focusable target is
\* focused again even when it has the focus.
mouse_press_event_refocus(s, h, x) ==
    IF s.panicked THEN s
    ELSE IF get(s, h, "CanFocus")
    THEN widget_set_focus(s, h, x)
    ELSE
        LET r == is_parent_focused(s, h)
        IN  IF r[1] THEN widget_set_clicked(r[2], h) ELSE r[2]

\* mouse_press_event that takes the focus away when the target cannot
\* focus.
mouse_press_event_blur(s, h, x) ==
    IF s.panicked THEN s
    ELSE IF get(s, h, "CanFocus")
    THEN IF s.focused # h
         THEN widget_set_focus(s, h, x)
         ELSE widget_set_clicked(s, h)
    ELSE
        LET r == is_parent_focused(s, h)
        IN  IF r[1] THEN widget_set_clicked([r[2] EXCEPT !.focused = NoHandle], h)
            ELSE [r[2] EXCEPT !.focused = NoHandle]

\* fn mouse_press_event
mouse_press_event(s, h, x) ==
    IF s.panicked THEN s
    ELSE IF get(s, h, "CanFocus")
    THEN IF s.focused # h
         THEN widget_set_focus(s, h, x)
         ELSE widget_set_clicked(s, h)
    ELSE
        LET r == is_parent_focused(s, h)
        IN  IF r[1] THEN widget_set_clicked(r[2], h) ELSE r[2]

\* mouse_press without the return after the first hit: every ClickAble
\* widget under the point is pressed.
RECURSIVE mouse_press_scan_all(_, _, _)
mouse_press_scan_all(s, i, x) ==
    IF i = 0 \/ s.panicked THEN s
    ELSE
        LET handle == s.zlist[i]
            s1 == IF /\ get(s, handle, "MoveAble")
                     /\ check_mouse_bounds(s, handle, s.mouse_clicked)
                  THEN SetFlag(s, handle, "Moving", FALSE) ELSE s
        IN  IF /\ get(s1, handle, "ClickAble")
               /\ check_mouse_bounds(s1, handle, s1.mouse_clicked)
            THEN mouse_press_scan_all(
                    [mouse_press_event(s1, handle, x) EXCEPT !.zlist = s.zlist], i - 1, x)
            ELSE mouse_press_scan_all(s1, i - 1, x)

\* mouse_press with a hit test that leaves the bounds out: the first
\* ClickAble widget from the end of zlist is pressed.
RECURSIVE mouse_press_scan_no_bounds(_, _, _)
mouse_press_scan_no_bounds(s, i, x) ==
    IF i = 0 THEN s
    ELSE IF get(s, s.zlist[i], "ClickAble")
    THEN mouse_press_event(s, s.zlist[i], x)
    ELSE mouse_press_scan_no_bounds(s, i - 1, x)

\* The hit test of mouse_press and mouse_release: zlist from its end.
\* fn mouse_press: the scan from index i down.
RECURSIVE mouse_press_scan(_, _, _)
mouse_press_scan(s, i, x) ==
    IF i = 0 THEN s
    ELSE
        LET handle == s.zlist[i]
            s1 == get_widget(s, handle)
        IN  IF s1.panicked THEN s1
            ELSE IF /\ get(s1, handle, "ClickAble")
                    /\ check_mouse_bounds(s1, handle, s1.mouse_clicked)
            THEN mouse_press_event(
                    IF get(s1, handle, "MoveAble")
                    THEN SetFlag(s1, handle, "Moving", FALSE) ELSE s1,
                    handle, x)
            ELSE mouse_press_scan(
                    IF /\ get(s1, handle, "MoveAble")
                       /\ check_mouse_bounds(s1, handle, s1.mouse_clicked)
                    THEN SetFlag(s1, handle, "Moving", FALSE) ELSE s1,
                    i - 1, x)

mouse_press(s, x) == mouse_press_scan(s, Len(s.zlist), x)

(***************************************************************************)
(* Release.                                                                *)
(***************************************************************************)
\* mouse_release without the return after the first hit.
RECURSIVE mouse_release_scan_all(_, _)
mouse_release_scan_all(s, i) ==
    IF i = 0 \/ s.panicked THEN s
    ELSE
        LET handle == s.zlist[i]
        IN  IF /\ get(s, handle, "ClickAble")
               /\ check_mouse_bounds(s, handle, s.mouse_clicked)
            THEN mouse_release_scan_all(
                    widget_mouse_press_callbacks(
                        IF get(s, handle, "CanMoveWindow")
                        THEN [s EXCEPT !.moving = FALSE] ELSE s,
                        handle, FALSE),
                    i - 1)
            ELSE mouse_release_scan_all(s, i - 1)

RECURSIVE mouse_release_scan(_, _)
mouse_release_scan(s, i) ==
    IF i = 0 THEN s
    ELSE
        LET handle == s.zlist[i]
            s1 == get_widget(s, handle)
        IN  IF s1.panicked THEN s1
            ELSE IF /\ get(s1, handle, "ClickAble")
                    /\ check_mouse_bounds(s1, handle, s1.mouse_clicked)
            THEN widget_mouse_press_callbacks(
                    IF get(s1, handle, "CanMoveWindow")
                    THEN [s1 EXCEPT !.moving = FALSE] ELSE s1,
                    handle, FALSE)
            ELSE mouse_release_scan(s1, i - 1)

\* fn mouse_release
mouse_release(s) ==
    LET s1 == IF s.focused # NoHandle
              THEN LET s0 == get_widget(s, s.focused)
                   IN  IF s0.panicked THEN s0
                       ELSE IF get(s0, s.focused, "Moving")
                       THEN SetFlag(s0, s.focused, "Moving", FALSE)
                       ELSE s0
              ELSE s
    IN  IF s1.panicked THEN s1 ELSE mouse_release_scan(s1, Len(s1.zlist))

\* pub fn event_mouse_button
event_mouse_button(s, b, pressed, x) ==
    LET s1 == [s EXCEPT !.button = b, !.mouse_clicked = s.mouse_pos]
    IN  IF pressed THEN mouse_press(s1, x) ELSE mouse_release(s1)

\* The handles the unbound name may stand for; it is read only under
\* `if let Some(focused_handle) = self.focused`.
Resolvable == IF focused = NoHandle THEN {NoHandle} ELSE DOMAIN widgets

EventMousePress ==
    /\ CanHandle
    /\ \E b \in Buttons, x \in Resolvable :
        Apply(event_mouse_button(Cur, b, TRUE, x),
              [kind |-> "press", pos |-> mouse_pos, arg |-> b])

EventMouseRelease ==
    /\ CanHandle
    /\ \E b \in Buttons :
        Apply(event_mouse_button(Cur, b, FALSE, NoHandle),
              [kind |-> "release", pos |-> mouse_pos, arg |-> b])

(***************************************************************************)
(* Pointer move and position propagation.                                  *)
(***************************************************************************)
\* The loop of widget_position_update without the recursion: a child's
\* callback is called, its own children are left out.
RECURSIVE position_update_children_flat(_, _, _)
position_update_children_flat(s, h, i) ==
    IF s.panicked \/ i > Len(s.widgets[h].children) THEN s
    ELSE
        LET handle == s.widgets[h].children[i]
        IN  position_update_children_flat(
                IF s.callbacks[handle]["PositionChange"] = "PositionChange"
                THEN Logged(s, "PositionChange", "internal", handle, FALSE)
                ELSE s,
                h, i + 1)

\* fn widget_position_update: the caller holds the RefMut of h.
RECURSIVE widget_position_update(_, _)
RECURSIVE position_update_children(_, _, _)
position_update_children(s, h, i) ==
    IF s.panicked \/ i > Len(s.widgets[h].children) THEN s
    ELSE
        LET handle == s.widgets[h].children[i]
            s1 == get_widget(s, handle)
            s2 == IF s1.panicked THEN s1
                  ELSE IF ~CanBorrow(s1, handle) THEN Panic(s1, "BorrowError")
                  ELSE IF s1.widgets[handle].children # <<>>
                  THEN IF ~CanBorrowMut(s1, handle) THEN Panic(s1, "BorrowMutError")
                       ELSE LET r == widget_position_update(HoldMut(s1, handle), handle)
                            IN  IF r.panicked THEN r ELSE DropMut(r, handle)
                  ELSE IF ~CanBorrowMut(s1, handle) THEN Panic(s1, "BorrowMutError")
                  ELSE IF s1.callbacks[handle]["PositionChange"] = "PositionChange"
                  THEN Logged(s1, "PositionChange", "internal", handle, FALSE)
                  ELSE s1
        IN  position_update_children(s2, h, i + 1)

\* widget_position_update that runs the widget's own callback after its
\* children's.
widget_position_update_children_first(s, h) ==
    IF s.panicked THEN s
    ELSE
        LET s1 == position_update_children(s, h, 1)
        IN  IF s1.panicked THEN s1
            ELSE IF s1.callbacks[h]["PositionChange"] = "PositionChange"
            THEN Logged(s1, "PositionChange", "internal", h, FALSE)
            ELSE s1

widget_position_update(s, h) ==
    IF s.panicked THEN s
    ELSE
        LET s1 == IF s.callbacks[h]["PositionChange"] = "PositionChange"
                  THEN Logged(s, "PositionChange", "internal", h, FALSE)
                  ELSE s
        IN  position_update_children(s1, h, 1)

\* The test of lines 98-101: the move is refused.
move_refused(bounds, pos, screensize) ==
    \/ bounds[1] + pos[1] <= 0
    \/ bounds[2] + pos[2] <= 0
    \/ bounds[1] + bounds[3] + pos[1] >= screensize[1]
    \/ bounds[2] + bounds[4] + pos[2] >= screensize[2]

\* event_mouse_position without the test of Moving (line 91): the focused
\* widget follows the pointer whenever no window drag is active.
event_mouse_position_any_focused(s, position, screensize, platform_ok) ==
    LET s1 == [s EXCEPT !.new_mouse_pos = position]
        done(r) == IF r.panicked THEN r ELSE [r EXCEPT !.mouse_pos = position]
    IN  IF s1.moving
        THEN IF platform_ok
             THEN done([s1 EXCEPT !.log = Append(@,
                        Entry("set_outer_position", "window", NoHandle, FALSE,
                              <<position[1] - s1.mouse_clicked[1],
                                position[2] - s1.mouse_clicked[2]>>, s1))])
             ELSE Panic(s1, "Not Supported. This will be a Soft warning via log later on.")
        ELSE IF s1.focused # NoHandle /\ s1.focused \in Handles(s1)
        THEN LET handle == s1.focused
                 pos == <<position[1] - s1.mouse_pos[1], position[2] - s1.mouse_pos[2]>>
                 bounds == s1.widgets[handle].bounds
             IN  IF move_refused(bounds, pos, screensize)
                 THEN s1
                 ELSE done([s1 EXCEPT !.widgets[handle].bounds =
                              <<bounds[1] + pos[1], bounds[2] + pos[2],
                                bounds[3], bounds[4]>>])
        ELSE done(s1)

\* pub fn event_mouse_position; platform_ok: window.outer_position() is Ok.
event_mouse_position(s, position, screensize, platform_ok) ==
    LET s1 == [s EXCEPT !.new_mouse_pos = position]
        done(r) == IF r.panicked THEN r ELSE [r EXCEPT !.mouse_pos = position]
    IN  IF s1.moving
        THEN IF platform_ok
             THEN done([s1 EXCEPT !.log = Append(@,
                        Entry("set_outer_position", "window", NoHandle, FALSE,
                              <<position[1] - s1.mouse_clicked[1],
                                position[2] - s1.mouse_clicked[2]>>, s1))])
             ELSE Panic(s1, "Not Supported. This will be a Soft warning via log later on.")
        ELSE IF s1.focused # NoHandle
        THEN LET handle == s1.focused
                 s2 == get_widget(s1, handle)
             IN  IF s2.panicked THEN s2
                 ELSE IF get(s2, handle, "Moving")
                 THEN LET pos == <<position[1] - s2.mouse_pos[1],
                                   position[2] - s2.mouse_pos[2]>>
                          bounds == s2.widgets[handle].bounds
                      IN  IF move_refused(bounds, pos, screensize)
                          THEN s2     \* return: mouse_pos keeps its value
                          ELSE LET s3 == [s2 EXCEPT !.widgets[handle].bounds =
                                            <<bounds[1] + pos[1], bounds[2] + pos[2],
                                              bounds[3], bounds[4]>>]
                                   s4 == widget_position_update(HoldMut(s3, handle), handle)
                               IN  done(IF s4.panicked THEN s4 ELSE DropMut(s4, handle))
                 ELSE done(s2)
        ELSE done(s1)

EventMousePosition ==
    /\ CanHandle
    /\ \E position \in points, platform_ok \in (IF moving THEN BOOLEAN ELSE {TRUE}) :
        Apply(event_mouse_position(Cur, position, screen, platform_ok),
              [kind |-> "move", pos |-> position, arg |-> 0])

(***************************************************************************)
(* Manual focus and clear.                                                 *)
(***************************************************************************)
\* fn widget_manual_focus
widget_manual_focus(s, h, x) ==
    IF ~get(s, h, "CanFocus") THEN s
    ELSE
        LET s0 == Logged(s, "manual_focus", "call", h, FALSE)
            s1 == [s0 EXCEPT !.zlist = RaiseToTop(@, h)]
            s2 == raise_in_parent(s1, h)
            s3 == IF s2.panicked \/ s2.focused = NoHandle THEN s2
                  ELSE LET p == unbound_parent_handle(s2, h, x)
                           s2a == get_widget(s2, p)
                       IN  widget_focused_callback(s2a, p, FALSE)
            s4 == IF s3.panicked THEN s3
                  ELSE IF ~CanBorrowMut(s3, h) THEN Panic(s3, "BorrowMutError")
                  ELSE [SetFlag(s3, h, "IsFocused", TRUE) EXCEPT !.focused = h]
        IN  widget_focused_callback(s4, h, TRUE)

ManualFocus ==
    /\ CanHandle
    /\ \E h \in DOMAIN widgets, x \in Resolvable :
        Apply(widget_manual_focus(Cur, h, x),
              [kind |-> "manual_focus", pos |-> mouse_pos, arg |-> h])

\* clear_widgets without lines 383-385: focused, over and clicked survive.
clear_widgets_keep_focus(s) ==
    [s EXCEPT !.visible = <<>>, !.zlist = <<>>, !.hidden = <<>>,
              !.callbacks = <<>>, !.user_callbacks = <<>>, !.name_map = <<>>,
              !.widgets = <<>>]

\* clear_widgets that also resets the drag, the pointer and the button.
clear_widgets_reset_all(s) ==
    [s EXCEPT !.visible = <<>>, !.zlist = <<>>, !.hidden = <<>>,
              !.callbacks = <<>>, !.user_callbacks = <<>>, !.name_map = <<>>,
              !.widgets = <<>>, !.focused = NoHandle, !.over = NoHandle,
              !.clicked = NoHandle, !.moving = FALSE, !.mouse_pos = <<0, 0>>,
              !.mouse_clicked = <<0, 0>>, !.new_mouse_pos = <<0, 0>>,
              !.button = 0, !.modifier = 0]

\* pub fn clear_widgets
clear_widgets(s) ==
    [s EXCEPT !.visible = <<>>, !.zlist = <<>>, !.hidden = <<>>,
              !.callbacks = <<>>, !.user_callbacks = <<>>, !.name_map = <<>>,
              !.widgets = <<>>, !.focused = NoHandle, !.over = NoHandle,
              !.clicked = NoHandle]

ClearWidgets ==
    /\ CanHandle
    /\ Apply(clear_widgets(Cur), [kind |-> "clear", pos |-> mouse_pos, arg |-> 0])

\* event_modifiers dropping its argument.
event_modifiers_ignored(s, m) == s

\* pub fn event_modifiers
event_modifiers(s, m) == [s EXCEPT !.modifier = m]

EventModifiers ==
    /\ CanHandle
    /\ \E m \in Modifiers :
        Apply(event_modifiers(Cur, m), [kind |-> "modifiers", pos |-> mouse_pos, arg |-> m])

Next ==
    \/ EventModifiers
    \/ EventMousePress
    \/ EventMouseRelease
    \/ EventMousePosition
    \/ ManualFocus
    \/ ClearWidgets

Spec == Init /\ [][Next]_vars

\* The input events alone: press, release, pointer move, modifiers.
NextEvents ==
    \/ EventModifiers
    \/ EventMousePress
    \/ EventMouseRelease
    \/ EventMousePosition

SpecEvents == Init /\ [][NextEvents]_vars

(***************************************************************************)
(* UI<Message> (user_interface/events.rs): the router behind the platform  *)
(* entry point handle_events.  Its widgets live in a hecs World (no        *)
(* RefCell); mouse_press, mouse_release, mouse_over_event and its          *)
(* widget_position_update are not in the source tree: press and release    *)
(* run the Widgets<T> code above, propagation runs widget_position_update  *)
(* above, hover follows the spec.                                          *)
(***************************************************************************)
\* The hidpi factors handle_events is called with.
HidpiFactors == {1, 2}

\* The hit test of the hover recomputation: as in press.
RECURSIVE mouse_over_scan(_, _)
mouse_over_scan(s, i) ==
    IF i = 0 THEN NoHandle
    ELSE IF /\ get(s, s.zlist[i], "ClickAble")
            /\ check_mouse_bounds(s, s.zlist[i], s.new_mouse_pos)
    THEN s.zlist[i]
    ELSE mouse_over_scan(s, i - 1)

\* mouse_over_event: the widget under the pointer becomes `over`; MouseOver
\* is cleared on the widget left and set on the widget entered, each being
\* notified.
mouse_over_event(s) ==
    LET t == mouse_over_scan(s, Len(s.zlist))
        s0 == Logged(s, "mouse_over", "call", t, FALSE)
        s1 == IF s0.over # NoHandle /\ s0.over # t /\ s0.over \in Handles(s0)
              THEN Logged(SetFlag(s0, s0.over, "MouseOver", FALSE),
                          "MouseOver", "exit", s0.over, FALSE)
              ELSE s0
        s2 == IF t # NoHandle /\ s1.over # t
              THEN Logged(SetFlag(s1, t, "MouseOver", TRUE), "MouseOver", "enter", t, TRUE)
              ELSE s1
    IN  [s2 EXCEPT !.over = t]

\* The containing bounds of lines 76-88: the parent's bounds, else
\* (0, 0, screensize.x, screensize.y).
ui_parent_bounds(s, handle, screensize) ==
    IF s.widgets[handle].parent # NoHandle
    THEN s.widgets[s.widgets[handle].parent].bounds
    ELSE <<0, 0, screensize[1], screensize[2]>>

\* The test of lines 104-107: the far edges are compared with the third
\* and fourth component of parent_bounds.
ui_move_refused(bounds, pos, parent_bounds) ==
    \/ bounds[1] + pos[1] <= parent_bounds[1]
    \/ bounds[2] + pos[2] <= parent_bounds[2]
    \/ bounds[1] + bounds[3] + pos[1] >= parent_bounds[3]
    \/ bounds[2] + bounds[4] + pos[2] >= parent_bounds[4]

\* Lines 60-61 without the change of sign of the vertical part.
ui_window_delta_unflipped(position, origin) ==
    <<position[1] - origin[1], position[2] - origin[2]>>

\* Lines 60-61: what is added to the window's outer position; origin is
\* self.mouse_clicked.
ui_window_delta(position, origin) ==
    <<position[1] - origin[1], (position[2] - origin[2]) * (-1)>>

\* pub fn UI::event_mouse_position; platform_ok: outer_position() is Ok.
ui_event_mouse_position(s, position, screensize, platform_ok) ==
    LET s1 == [s EXCEPT !.new_mouse_pos = position]
        done(r) == IF r.panicked THEN r ELSE [r EXCEPT !.mouse_pos = position]
    IN  IF s1.moving
        THEN IF platform_ok
             THEN done([s1 EXCEPT !.log = Append(@,
                        Entry("set_outer_position", "window", NoHandle, FALSE,
                              ui_window_delta(position, s1.mouse_clicked), s1))])
             ELSE Panic(s1, "Not Supported. This will be a Soft warning via log later on.")
        ELSE
            LET handle == s1.focused
            IN  IF handle # NoHandle /\ handle \notin Handles(s1)
                THEN Panic(s1, "Widget is missing its actions?")
                ELSE IF handle # NoHandle /\ get(s1, handle, "Moving")
                THEN LET parent_bounds == ui_parent_bounds(s1, handle, screensize)
                         pos == <<position[1] - s1.mouse_pos[1],
                                  (position[2] - s1.mouse_pos[2]) * (-1)>>
                         bounds == s1.widgets[handle].bounds
                     IN  IF ui_move_refused(bounds, pos, parent_bounds)
                         THEN s1     \* return: no hover, mouse_pos keeps its value
                         ELSE LET s2 == [s1 EXCEPT !.widgets[handle].bounds =
                                            <<bounds[1] + pos[1], bounds[2] + pos[2],
                                              bounds[3], bounds[4]>>]
                                  s3 == widget_position_update(s2, handle)
                              IN  done(mouse_over_event(s3))
                ELSE done(mouse_over_event(s1))

\* pub fn UI::handle_events, WindowEvent::CursorMoved: the platform's
\* position, y downwards, becomes (x * hidpi, height - y * hidpi).
cursor_position(x, y, hidpi, size) == <<x * hidpi, size[2] - (y * hidpi)>>

HandleCursorMoved ==
    /\ CanHandle
    /\ \E xy \in points, hidpi \in HidpiFactors,
          platform_ok \in (IF moving THEN BOOLEAN ELSE {TRUE}) :
        LET pos == cursor_position(xy[1], xy[2], hidpi, screen)
        IN  Apply(ui_event_mouse_position(Cur, pos, screen, platform_ok),
                  [kind |-> "cursor_moved", pos |-> pos, arg |-> hidpi])

\* WindowEvent::MouseInput: UI::event_mouse_button (lines 130-147).
HandleMouseInput ==
    /\ CanHandle
    /\ \E b \in Buttons, pressed \in BOOLEAN, x \in Resolvable :
        Apply(event_mouse_button(Cur, b, pressed, x),
              [kind |-> IF pressed THEN "press" ELSE "release",
               pos |-> mouse_pos, arg |-> b])

\* Every other event (keyboard input, mouse motion, wheel): nothing.
HandleOtherEvent ==
    /\ CanHandle
    /\ Apply(Cur, [kind |-> "other", pos |-> mouse_pos, arg |-> 0])

NextUI ==
    \/ HandleCursorMoved
    \/ HandleMouseInput
    \/ HandleOtherEvent
    \/ EventModifiers
    \/ EventMousePosition

SpecUI == Init /\ [][NextUI]_vars

(***************************************************************************)
(* The loops of the handlers, one iteration a step.  pc holds the loop the *)
(* handler in progress is in and the event it handles; the router's fields *)
(* show the handler's writes when it returns or panics.                    *)
(***************************************************************************)
\* Everything but pc.
router ==
    <<widgets, callbacks, user_callbacks, name_map, zlist, visible, hidden,
      focused, over, clicked, mouse_clicked, mouse_pos, new_mouse_pos, moving, button,
      modifier, screen, points, log, panicked, event, steps, input, textures, rect>>

\* Line 305 without the assignment: the walk stays on the same ancestor.
walk_next_stuck(parent_opt) == parent_opt

\* parent_opt = parent.borrow().parent
walk_next(parent_opt) == widgets[parent_opt].parent

\* The loops of the button event in pc are over.
ButtonDone == [op |-> "return", of |-> "button", b |-> pc.b, pressed |-> pc.pressed,
               x |-> pc.x]

\* event_mouse_button is entered: the scan of mouse_press or mouse_release
\* starts at the end of zlist.
BeginButton ==
    /\ CanHandle /\ pc = Idle
    /\ \E b \in Buttons, pressed \in BOOLEAN, x \in Resolvable :
        pc' = [op |-> "scan", i |-> Len(zlist), b |-> b, pressed |-> pressed, x |-> x]
    /\ UNCHANGED router

\* for handle in self.zlist.iter().rev(): one widget is tested.  A hit
\* ends the scan; a pressed target that cannot focus and is not
\* AlwaysUseable enters the walk of is_parent_focused.
ScanStep ==
    /\ pc.op = "scan"
    /\ pc' = IF pc.i = 0 THEN ButtonDone
             ELSE IF /\ get(Cur, zlist[pc.i], "ClickAble")
                     /\ check_mouse_bounds(Cur, zlist[pc.i], mouse_pos)
             THEN IF /\ pc.pressed
                     /\ ~get(Cur, zlist[pc.i], "CanFocus")
                     /\ ~get(Cur, zlist[pc.i], "AlwaysUseable")
                  THEN [op |-> "walk", h |-> zlist[pc.i],
                        parent_opt |-> widgets[zlist[pc.i]].parent,
                        b |-> pc.b, pressed |-> TRUE, x |-> pc.x]
                  ELSE ButtonDone
             ELSE [pc EXCEPT !.i = @ - 1]
    /\ UNCHANGED router

\* while let Some(parent_handle) = parent_opt: one ancestor is tested.
WalkStep ==
    /\ pc.op = "walk"
    /\ pc' = IF pc.parent_opt = NoHandle THEN ButtonDone
             ELSE IF \/ get(Cur, pc.parent_opt, "CanFocus")
                     \/ /\ get(Cur, pc.parent_opt, "AlwaysUseable")
                        /\ get(Cur, pc.parent_opt, "ClickAble")
                        /\ widgets[pc.h].parent = pc.parent_opt
                        /\ get(Cur, pc.h, "CanClickBehind")
             THEN ButtonDone
             ELSE [pc EXCEPT !.parent_opt = walk_next(pc.parent_opt)]
    /\ UNCHANGED router

\* event_mouse_position is entered.  An accepted drag enters
\* widget_position_update on the focused widget; every other move returns.
BeginMove ==
    /\ CanHandle /\ pc = Idle
    /\ \E position \in points, platform_ok \in (IF moving THEN BOOLEAN ELSE {TRUE}) :
        IF /\ ~moving /\ focused # NoHandle /\ get(Cur, focused, "Moving")
           /\ ~move_refused(widgets[focused].bounds,
                            <<position[1] - mouse_pos[1], position[2] - mouse_pos[2]>>,
                            screen)
        THEN /\ pc' = [op |-> "propagate", stack |-> <<<<focused, 1>>>>,
                       position |-> position]
             /\ UNCHANGED router
        ELSE Apply(event_mouse_position(Cur, position, screen, platform_ok),
                   [kind |-> "move", pos |-> position, arg |-> 0])

\* One iteration of `for handle in &parent.children` in the innermost call
\* of widget_position_update: the stack holds, per call, the widget and
\* the index of its next child.  A child with children is a new call, a
\* leaf is called back in the loop, the end of the sequence returns.
PropagateStep ==
    /\ pc.op = "propagate"
    /\ pc' = IF pc.stack = <<>>
             THEN [op |-> "return", of |-> "move", position |-> pc.position]
             ELSE LET h == pc.stack[1][1]
                      i == pc.stack[1][2]
                      rest == Tail(pc.stack)
                  IN  [pc EXCEPT !.stack =
                        IF i > Len(widgets[h].children) THEN rest
                        ELSE IF widgets[widgets[h].children[i]].children # <<>>
                        THEN <<<<widgets[h].children[i], 1>>, <<h, i + 1>>>> \o rest
                        ELSE <<<<h, i + 1>>>> \o rest]
    /\ UNCHANGED router

\* The handler returns to its caller (or has panicked): its writes and
\* callback invocations are those of the handler run as a whole.
Return ==
    /\ pc.op = "return"
    /\ IF pc.of = "button"
       THEN Apply(event_mouse_button(Cur, pc.b, pc.pressed, pc.x),
                  [kind |-> IF pc.pressed THEN "press" ELSE "release",
                   pos |-> mouse_pos, arg |-> pc.b])
       ELSE Apply(event_mouse_position(Cur, pc.position, screen, TRUE),
                  [kind |-> "move", pos |-> pc.position, arg |-> 0])

\* The handler in progress goes on: the router runs on one thread.
LoopStep == ScanStep \/ WalkStep \/ PropagateStep

NextSteps ==
    \/ BeginButton
    \/ BeginMove
    \/ ScanStep
    \/ WalkStep
    \/ PropagateStep
    \/ Return

SpecSteps == Init /\ [][NextSteps]_vars /\ WF_vars(LoopStep)

(***************************************************************************)
(* The UI during the drag of a child.  UI::mouse_press is not in the       *)
(* source tree: the runs start after the press the spec describes, on a    *)
(* movable child (focused, Moving set, raised) of a parent that does not   *)
(* lie at the origin.                                                      *)
(***************************************************************************)
SceneChildDrag ==
    [widgets |->
        (1 :> Node(NoHandle, <<2>>, {"CanFocus", "ClickAble", "MoveAble"},
                   <<20, 20, 40, 40>>)
      @@ 2 :> Node(1, <<>>, {"CanFocus", "ClickAble", "MoveAble", "IsFocused", "Moving"},
                   <<22, 22, 10, 10>>)),
     zlist |-> <<1, 2>>,
     hidden |-> <<>>,
     internal |-> [h \in 1..2 |->
        [k \in CallBack |-> IF k = "PositionChange" THEN "PositionChange" ELSE "MousePress"]],
     user |-> [h \in 1..2 |->
        [k \in CallBack |-> IF k = "MousePress" THEN "MousePress" ELSE "None"]],
     screen |-> <<100, 100>>,
     points |-> {<<25, 75>>, <<35, 75>>, <<24, 76>>, <<50, 50>>}]

InitChildDrag ==
    LET sc == SceneChildDrag
    IN  /\ widgets = sc.widgets
        /\ callbacks = sc.internal
        /\ user_callbacks = sc.user
        /\ name_map = [h \in DOMAIN sc.widgets |-> h]
        /\ zlist = sc.zlist
        /\ visible = <<1>>
        /\ hidden = sc.hidden
        /\ screen = sc.screen
        /\ points = sc.points
        /\ focused = 2
        /\ over = 2
        /\ clicked = NoHandle
        /\ mouse_clicked = <<25, 25>>
        /\ mouse_pos = <<25, 25>>
        /\ new_mouse_pos = <<25, 25>>
        /\ moving = FALSE
        /\ button = 1
        /\ modifier = 0
        /\ log = <<>>
        /\ panicked = FALSE
        /\ event = [kind |-> "press", pos |-> <<25, 25>>, arg |-> 1]
        /\ steps = 0
        /\ pc = Idle
        /\ Beside

NextChildDrag ==
    \/ HandleCursorMoved
    \/ HandleMouseInput

SpecChildDrag == InitChildDrag /\ [][NextChildDrag]_vars

(***************************************************************************)
(* Frame drawing: UI::event_draw.                                          *)
(***************************************************************************)
\* The loop of lines 33-39 that does not leave at the first Err.
RECURSIVE draw_widgets_all(_, _, _)
draw_widgets_all(s, i, failing) ==
    IF i > Len(s.zlist)
    THEN IF \E j \in 1..Len(s.zlist) : s.zlist[j] \in failing
         THEN Logged(s, "return", "Err", NoHandle, FALSE)
         ELSE Logged(Logged(Logged(s, "finalize", "ui_buffer", NoHandle, FALSE),
                            "finalize", "text_renderer", NoHandle, FALSE),
                     "return", "Ok", NoHandle, FALSE)
    ELSE IF s.zlist[i] \notin DOMAIN s.widgets
    THEN Panic(s, "Widget is missing its inner UI Type?")
    ELSE draw_widgets_all(Logged(s, "draw", "call", s.zlist[i], FALSE), i + 1, failing)

\* for handle in &self.zlist.clone(): the widget is fetched (a missing one
\* is fatal) and drawn; `?` returns the first Err.  After the loop both
\* buffers are finalized and Ok(()) is returned.  failing: the widgets
\* whose draw returns Err.
RECURSIVE draw_widgets(_, _, _)
draw_widgets(s, i, failing) ==
    IF i > Len(s.zlist)
    THEN Logged(Logged(Logged(s, "finalize", "ui_buffer", NoHandle, FALSE),
                       "finalize", "text_renderer", NoHandle, FALSE),
                "return", "Ok", NoHandle, FALSE)
    ELSE IF s.zlist[i] \notin DOMAIN s.widgets
    THEN Panic(s, "Widget is missing its inner UI Type?")
    ELSE LET h == s.zlist[i]
             s1 == Logged(s, "draw", "call", h, FALSE)
         IN  IF h \in failing
             THEN Logged(s1, "return", "Err", h, FALSE)
             ELSE draw_widgets(s1, i + 1, failing)

\* pub fn UI::event_draw
event_draw(s, failing) == draw_widgets(s, 1, failing)

\* The sets of failing widgets a frame is drawn with: none, one, and all
\* from a position of the Z-Order on.
DrawFailures(z) ==
    {{}} \cup {{z[i]} : i \in 1..Len(z)}
         \cup {{z[j] : j \in i..Len(z)} : i \in 1..Len(z)}

EventDraw ==
    /\ CanHandle
    /\ \E failing \in DrawFailures(zlist) :
        Apply(event_draw(Cur, failing),
              [kind |-> "draw", pos |-> mouse_pos, arg |-> failing])

\* The UI driven by pointer events and frames.
NextDraw ==
    \/ EventDraw
    \/ HandleCursorMoved
    \/ HandleMouseInput

SpecDraw == Init /\ [][NextDraw]_vars

(***************************************************************************)
(* Vocabulary of the properties.                                           *)
(***************************************************************************)
IsSet(h, flag) == flag \in widgets[h].actions

Contains(h, p) ==
    LET b == widgets[h].bounds
    IN  b[1] <= p[1] /\ p[1] <= b[1] + b[3] /\ b[2] <= p[2] /\ p[2] <= b[2] + b[4]

\* The ClickAble widgets under p, and the one of them latest in the Z-Order.
Hit(p) == {h \in DOMAIN widgets : IsSet(h, "ClickAble") /\ Contains(h, p)
                                   /\ Position(zlist, h) # 0}

Topmost(p) ==
    IF Hit(p) = {} THEN NoHandle
    ELSE CHOOSE h \in Hit(p) : \A g \in Hit(p) : Position(zlist, g) <= Position(zlist, h)

\* A step that handles an event of the kind.
Handled(kind) == steps' = steps + 1 /\ event'.kind = kind

\* The callback invocations of an event, and calls of a function, in a log.
Invocations(l, kind) == SelectSeq(l, LAMBDA e : e.kind = kind)
Receivers(l, kind) == {l[i].h : i \in {j \in 1..Len(l) : l[j].kind = kind}}
Called(l, fn, h) == \E i \in 1..Len(l) : l[i].kind = fn /\ l[i].tier = "call" /\ l[i].h = h

HasFocusCallback(h) == callbacks[h]["MousePress"] = "FocusChange"

\* The MousePress invocations one dispatch to h makes: internal, then user.
Dispatch(h, pressed, b, m) ==
    LET e(tier) == [kind |-> "MousePress", tier |-> tier, h |-> h, flag |-> pressed,
                    pos |-> <<0, 0>>, button |-> b, modifier |-> m]
    IN  (IF callbacks[h]["MousePress"] = "MousePress" THEN <<e("internal")>> ELSE <<>>)
        \o (IF user_callbacks[h]["MousePress"] = "MousePress" THEN <<e("user")>> ELSE <<>>)

(***************************************************************************)
(* C1.  A press that targets a CanFocus widget B while another widget A is *)
(* focused invokes A's focus-changed callback with false before B's with   *)
(* true, and leaves Router.focused = B.                                    *)
(***************************************************************************)
C1_FocusHandover ==
    [][\A a, b \in DOMAIN widgets :
        (/\ Handled("press")
         /\ b = Topmost(mouse_pos) /\ IsSet(b, "CanFocus")
         /\ focused = a /\ a # b
         /\ HasFocusCallback(a) /\ HasFocusCallback(b))
        => /\ focused' = b
           /\ \E i, j \in 1..Len(log') :
                /\ i < j
                /\ log'[i].kind = "FocusChange" /\ log'[i].h = a /\ ~log'[i].flag
                /\ log'[j].kind = "FocusChange" /\ log'[j].h = b /\ log'[j].flag]_vars

(***************************************************************************)
(* C2.  After any sequence of press, release, pointer-move and modifier    *)
(* events at most one widget has IsFocused set, and when Router.focused is *)
(* Some(h) that widget is h.                                               *)
(***************************************************************************)
FocusedWidgets == {h \in DOMAIN widgets : IsSet(h, "IsFocused")}

C2_FocusExclusive ==
    /\ Cardinality(FocusedWidgets) <= 1
    /\ focused # NoHandle => FocusedWidgets = {focused}

(***************************************************************************)
(* C3.  Original: for a press at a point within two overlapping ClickAble  *)
(* widgets only the one latest in the Z-Order receives the MousePress      *)
(* callback, the other receives no callback from the press.                *)
(***************************************************************************)
C3_OnlyTopmostOriginal ==
    [][\A low, top \in DOMAIN widgets :
        (/\ Handled("press")
         /\ {low, top} \subseteq Hit(mouse_pos) /\ low # top
         /\ top = Topmost(mouse_pos))
        => /\ Receivers(log', "MousePress") \subseteq {top}
           /\ low \notin Receivers(log', "FocusChange")]_vars

(***************************************************************************)
(* C3, amended.  The MousePress callbacks of a press go to one widget at   *)
(* most, with pressed = true: the topmost ClickAble widget under the       *)
(* point or, when that widget has CanClickBehind, its parent; every other  *)
(* widget, and every widget when no ClickAble widget is under the point,   *)
(* receives no MousePress callback.                                        *)
(***************************************************************************)
C3_OnlyTopmostOrItsParent ==
    [][Handled("press") =>
        LET top == Topmost(mouse_pos)
            got == Receivers(log', "MousePress")
        IN  /\ top = NoHandle => got = {}
            /\ top # NoHandle =>
                got \subseteq (IF IsSet(top, "CanClickBehind")
                               THEN {widgets[top].parent} ELSE {top})
            /\ \A i \in 1..Len(log') : log'[i].kind = "MousePress" => log'[i].flag]_vars

\* A press under which two ClickAble widgets overlap was dispatched to the
\* topmost of them.
C3_Witness ==
    /\ event.kind = "press" /\ ~panicked
    /\ Cardinality(Hit(event.pos)) >= 2
    /\ Receivers(log, "MousePress") = {Topmost(event.pos)}

(***************************************************************************)
(* C4.  A release dispatches MousePress with pressed = false to exactly    *)
(* the topmost ClickAble widget under the release point (internal tier,    *)
(* then user tier, as registered) and to no other widget; with no          *)
(* ClickAble widget under the point it dispatches nothing.                 *)
(***************************************************************************)
C4_ReleaseTopmost ==
    [][Handled("release") =>
        LET top == Topmost(mouse_pos)
            callbacks_made == SelectSeq(log', LAMBDA e :
                e.kind \in {"MousePress", "FocusChange", "PositionChange"})
        IN  callbacks_made =
                IF top = NoHandle THEN <<>>
                ELSE Dispatch(top, FALSE, event'.arg, modifier)]_vars

\* A release over two overlapping ClickAble widgets was dispatched.
C4_Witness ==
    /\ event.kind = "release"
    /\ Cardinality(Hit(event.pos)) >= 2
    /\ \E i \in 1..Len(log) :
        log[i].kind = "MousePress" /\ ~log[i].flag /\ log[i].h = Topmost(event.pos)

(***************************************************************************)
(* C5.  Widget drag is all-or-nothing.  With the focused widget Moving and *)
(* no window drag, a pointer move whose delta (P minus the last pointer    *)
(* position) puts an edge of the prospective bounds outside the containing *)
(* bounds (the parent's, else the viewport) changes no position and fires  *)
(* no PositionChange; any other move changes the position by exactly the   *)
(* delta and runs the propagation from the widget.                         *)
(***************************************************************************)
ContainingBounds(h) ==
    IF widgets[h].parent # NoHandle THEN widgets[widgets[h].parent].bounds
    ELSE <<0, 0, screen[1], screen[2]>>

\* An edge of bounds b lies outside the rectangle c.
EdgeOutside(b, c) ==
    \/ b[1] < c[1]
    \/ b[2] < c[2]
    \/ b[1] + b[3] > c[1] + c[3]
    \/ b[2] + b[4] > c[2] + c[4]

Shifted(b, d) == <<b[1] + d[1], b[2] + d[2], b[3], b[4]>>

C5_DragAllOrNothing ==
    [][(/\ Handled("move")
        /\ focused # NoHandle /\ ~moving
        /\ IsSet(focused, "Moving"))
       => LET delta == <<event'.pos[1] - mouse_pos[1], event'.pos[2] - mouse_pos[2]>>
              want == Shifted(widgets[focused].bounds, delta)
          IN  IF EdgeOutside(want, ContainingBounds(focused))
              THEN /\ \A h \in DOMAIN widgets : widgets'[h].bounds = widgets[h].bounds
                   /\ Receivers(log', "PositionChange") = {}
              ELSE /\ widgets'[focused].bounds = want
                   /\ callbacks[focused]["PositionChange"] = "PositionChange"
                        => focused \in Receivers(log', "PositionChange")]_vars

(***************************************************************************)
(* C6.  Original: for a ClickAble widget W with CanClickBehind whose       *)
(* parent P has CanMoveWindow and ClickAble, a press at a point inside     *)
(* both (W being the widget the press hits) invokes P's MousePress         *)
(* callback with pressed = true, never W's, and begins a window drag.      *)
(***************************************************************************)
Delegating(w, p) ==
    /\ w = Topmost(mouse_pos)
    /\ IsSet(w, "ClickAble") /\ IsSet(w, "CanClickBehind")
    /\ p = widgets[w].parent
    /\ IsSet(p, "CanMoveWindow") /\ IsSet(p, "ClickAble")
    /\ Contains(w, mouse_pos) /\ Contains(p, mouse_pos)

Delegated(w, p) ==
    /\ Invocations(log', "MousePress") = Dispatch(p, TRUE, event'.arg, modifier)
    /\ Invocations(log', "MousePress") # <<>>
    /\ w \notin Receivers(log', "MousePress")
    /\ moving'

RECURSIVE Ancestors(_)
Ancestors(h) ==
    IF widgets[h].parent = NoHandle THEN {}
    ELSE {widgets[h].parent} \cup Ancestors(widgets[h].parent)

Granted(w) ==
    \/ IsSet(w, "AlwaysUseable")
    \/ \E a \in Ancestors(w) : IsSet(a, "CanFocus")
    \/ IsSet(widgets[w].parent, "AlwaysUseable")

Descendants(h) == {d \in DOMAIN widgets : h \in Ancestors(d)}

Times(l, kind, h) == Len(SelectSeq(l, LAMBDA e : e.kind = kind /\ e.h = h))

C7_PropagationComplete ==
    [][\A h \in DOMAIN widgets :
        (Handled("move") /\ widgets'[h].bounds # widgets[h].bounds)
        => \A d \in DOMAIN widgets :
            Times(log', "PositionChange", d) =
                IF /\ d \in Descendants(h) \cup {h}
                   /\ callbacks[d]["PositionChange"] = "PositionChange"
                THEN 1 ELSE 0]_vars

\* A moved widget with a grandchild: children and grandchild were called.
C7_Witness ==
    /\ event.kind = "move"
    /\ \E h, c, g \in DOMAIN widgets :
        /\ widgets[c].parent = h /\ widgets[g].parent = c
        /\ log # <<>> /\ log[1].kind = "PositionChange" /\ log[1].h = h
        /\ {c, g} \subseteq Receivers(log, "PositionChange")
        /\ Cardinality(Descendants(h)) >= 3

(***************************************************************************)
(* C8.  Raise-to-top is idempotent: raising a widget that is already last  *)
(* in the Z-Order and last among its parent's children leaves the Z-Order  *)
(* and every child sequence unchanged, and so does raising a widget again  *)
(* right after it was raised.                                              *)
(***************************************************************************)
Last(seq) == seq[Len(seq)]

RaisedIn(l, h) == Called(l, "set_focus", h) \/ Called(l, "manual_focus", h)

AlreadyTop(h) ==
    /\ zlist # <<>> /\ Last(zlist) = h
    /\ widgets[h].parent # NoHandle => Last(widgets[widgets[h].parent].children) = h

SequencesUnchanged ==
    /\ zlist' = zlist
    /\ \A g \in DOMAIN widgets : widgets'[g].children = widgets[g].children

C8_RaiseIdempotent ==
    [][\A h \in DOMAIN widgets :
        (steps' = steps + 1 /\ RaisedIn(log', h) /\ (AlreadyTop(h) \/ RaisedIn(log, h)))
        => SequencesUnchanged]_vars

\* Widget 1, first in every scene's Z-Order, was focused by hand twice in
\* a row: the second call found it focused and on top.
C8_Witness ==
    /\ steps = 2 /\ event.kind = "manual_focus" /\ event.arg = 1
    /\ FocusedWidgets = {1}
    /\ \E i \in 1..Len(log) : log[i].kind = "FocusChange" /\ ~log[i].flag
    /\ Last(zlist) = 1

(***************************************************************************)
(* C9.  Setting the focus on a widget moves it to the end of the Z-Order   *)
(* and, where it has a parent, to the end of the parent's child sequence,  *)
(* the other handles of both sequences keeping their relative order.       *)
(***************************************************************************)
MovedToEnd(old, new, h) ==
    IF Position(old, h) # 0
    THEN new = Append(SelectSeq(old, LAMBDA e : e # h), h)
    ELSE new = old

C9_FocusRaises ==
    [][\A h \in DOMAIN widgets :
        (steps' = steps + 1 /\ Called(log', "set_focus", h))
        => /\ MovedToEnd(zlist, zlist', h)
           /\ widgets[h].parent # NoHandle =>
                MovedToEnd(widgets[widgets[h].parent].children,
                           widgets'[widgets[h].parent].children, h)]_vars

(***************************************************************************)
(* C10.  The Z-Order never lists a handle twice, and press, release,       *)
(* pointer move, modifiers and the focus operations only permute it: the   *)
(* set of handles it lists and its length stay as they were.               *)
(***************************************************************************)
Range(seq) == {seq[i] : i \in 1..Len(seq)}

C10_ZlistOnlyPermuted ==
    /\ [](Cardinality(Range(zlist)) = Len(zlist))
    /\ [][(steps' = steps + 1 /\ event'.kind # "clear")
          => Range(zlist') = Range(zlist) /\ Len(zlist') = Len(zlist)]_vars

\* A press focused widget 1, first in the Z-Order at the start, and left
\* it last.
C10_Witness ==
    /\ event.kind = "press" /\ Called(log, "set_focus", 1)
    /\ Len(zlist) >= 5 /\ Last(zlist) = 1 /\ zlist[1] # 1

(***************************************************************************)
(* C11.  The window drag state `moving` becomes true only in a press whose *)
(* target, or, for a CanClickBehind target, the target's parent, has       *)
(* CanMoveWindow and contains the click point.  In particular a press and  *)
(* then a release on a ClickAble + CanFocus widget without CanMoveWindow   *)
(* focuses it, delivers MousePress(true), then MousePress(false), to it,   *)
(* and leaves moving false throughout.                                     *)
(***************************************************************************)
WindowPress ==
    LET t == Topmost(mouse_pos)
    IN  /\ t # NoHandle
        /\ \/ IsSet(t, "CanMoveWindow") /\ Contains(t, mouse_pos)
           \/ /\ IsSet(t, "CanClickBehind")
              /\ widgets[t].parent # NoHandle
              /\ IsSet(widgets[t].parent, "CanMoveWindow")
              /\ Contains(widgets[t].parent, mouse_pos)

\* b is the target at the pointer, focusable, and not a window-drag or
\* click-behind widget; no window drag is going on.
PlainFocusable(b) ==
    /\ b = Topmost(mouse_pos)
    /\ IsSet(b, "CanFocus") /\ ~IsSet(b, "CanMoveWindow") /\ ~IsSet(b, "CanClickBehind")
    /\ ~moving

MovingOnlyOnWindowPress ==
    (~moving /\ moving') => (Handled("press") /\ WindowPress)

PlainPressFocuses ==
    \A b \in DOMAIN widgets :
        (Handled("press") /\ PlainFocusable(b))
        => /\ focused' = b
           /\ ~moving'
           /\ Invocations(log', "MousePress") = Dispatch(b, TRUE, event'.arg, modifier)

PlainReleaseDelivers ==
    \A b \in DOMAIN widgets :
        (Handled("release") /\ event.kind = "press" /\ PlainFocusable(b))
        => /\ ~moving'
           /\ Invocations(log', "MousePress") = Dispatch(b, FALSE, event'.arg, modifier)

C11_MovingOnlyOnWindowPress ==
    /\ [][MovingOnlyOnWindowPress]_vars
    /\ [][PlainPressFocuses]_vars
    /\ [][PlainReleaseDelivers]_vars

(***************************************************************************)
(* C12.  Every router operation keeps the tree's referential integrity:    *)
(* a node that A lists as a child is a node of the store whose parent is   *)
(* A, it is listed once, and no node is its own ancestor.                  *)
(***************************************************************************)
C12_TreeIntegrity ==
    \A a \in DOMAIN widgets :
        LET ch == widgets[a].children
        IN  /\ \A i \in 1..Len(ch) :
                /\ ch[i] \in DOMAIN widgets
                /\ widgets[ch[i]].parent = a
                /\ \A j \in 1..Len(ch) : ch[j] = ch[i] => j = i
            /\ a \notin Ancestors(a)

\* A focus operation was run on a widget that its parent lists among
\* several children.
C12_Witness ==
    /\ event.kind \in {"press", "manual_focus"}
    /\ \E h \in DOMAIN widgets :
        /\ RaisedIn(log, h)
        /\ widgets[h].parent # NoHandle
        /\ Len(widgets[widgets[h].parent].children) >= 2
        /\ Position(widgets[widgets[h].parent].children, h) # 0

(***************************************************************************)
(* C13.  The MousePress dispatch of an event invokes the internal-tier     *)
(* callback, where registered, before the user-tier callback, where        *)
(* registered, both with the same pressed flag, the Router's current       *)
(* button and the Router's active modifier set.                            *)
(***************************************************************************)
C13_InternalThenUser ==
    [][steps' = steps + 1 =>
        LET made == Invocations(log', "MousePress")
        IN  \/ made = <<>>
            \/ \E h \in DOMAIN widgets, pressed \in BOOLEAN :
                made = Dispatch(h, pressed, button', modifier')]_vars

\* A dispatch reached both tiers of a widget, under a modifier set that an
\* earlier event had replaced.
C13_Witness ==
    /\ Len(log) >= 2 /\ modifier = 1
    /\ \E i \in 1..(Len(log) - 1) :
        /\ log[i].kind = "MousePress" /\ log[i].tier = "internal"
        /\ log[i + 1].kind = "MousePress" /\ log[i + 1].tier = "user"
        /\ log[i + 1].h = log[i].h /\ log[i + 1].flag = log[i].flag
        /\ log[i].modifier = 1 /\ log[i].button = button

(***************************************************************************)
(* C15.  A release clears the Moving flag unconditionally: after a release *)
(* event has been handled no widget of the store has Moving set.           *)
(***************************************************************************)
C15_ReleaseClearsMoving ==
    [][Handled("release") =>
        \A h \in DOMAIN widgets' : "Moving" \notin widgets'[h].actions]_vars

(***************************************************************************)
(* C16.  A release ends a window drag: whenever moving was true before a   *)
(* release it is false after the release.                                  *)
(***************************************************************************)
C16_ReleaseEndsWindowDrag ==
    [][(Handled("release") /\ moving) => ~moving']_vars

(***************************************************************************)
(* C17.  A press at a point within no ClickAble widget's bounds changes    *)
(* nothing: Router.focused, clicked and moving, the Z-Order, the child     *)
(* sequences, every widget's flags and position stay as they were, and no  *)
(* callback is dispatched.                                                 *)
(***************************************************************************)
NoCallback(l) ==
    \A i \in 1..Len(l) : l[i].kind \notin {"MousePress", "FocusChange", "PositionChange"}

C17_MissIsNoOp ==
    [][(Handled("press") /\ Topmost(mouse_pos) = NoHandle)
       => /\ focused' = focused /\ clicked' = clicked /\ moving' = moving
          /\ zlist' = zlist
          /\ widgets' = widgets
          /\ NoCallback(log')
          /\ ~panicked']_vars

\* A press that missed every ClickAble widget while a widget was focused
\* and the Z-Order listed ClickAble widgets.
C17_Witness ==
    /\ event.kind = "press" /\ Hit(event.pos) = {}
    /\ focused # NoHandle
    /\ \E h \in DOMAIN widgets : IsSet(h, "ClickAble") /\ Position(zlist, h) # 0
    /\ log = <<>>

(***************************************************************************)
(* C18.  Original: when the press target cannot itself focus and no        *)
(* ancestor grants permission (no ancestor has AlwaysUseable or CanFocus), *)
(* the press is ignored: no MousePress or focus-changed callback, Router   *)
(* focused, clicked, moving and the Z-Order unchanged, no Moving flag set, *)
(* no panic.                                                               *)
(***************************************************************************)
Ignored ==
    /\ NoCallback(log')
    /\ focused' = focused /\ clicked' = clicked /\ moving' = moving
    /\ zlist' = zlist
    /\ \A h \in DOMAIN widgets :
        ("Moving" \in widgets'[h].actions) => IsSet(h, "Moving")
    /\ ~panicked'

NoAncestorGrants(w) ==
    \A a \in Ancestors(w) : ~IsSet(a, "AlwaysUseable") /\ ~IsSet(a, "CanFocus")

C18_IgnoredOriginal ==
    [][\A w \in DOMAIN widgets :
        (/\ Handled("press") /\ w = Topmost(mouse_pos)
         /\ ~IsSet(w, "CanFocus") /\ NoAncestorGrants(w))
        => Ignored]_vars

(***************************************************************************)
(* C18, amended.  The press is ignored when the target cannot itself       *)
(* focus, has no AlwaysUseable of its own, no ancestor of it has CanFocus, *)
(* and it is not a CanClickBehind child of an AlwaysUseable ClickAble      *)
(* parent.                                                                 *)
(***************************************************************************)
PermissionGranted(w) ==
    \/ IsSet(w, "AlwaysUseable")
    \/ \E a \in Ancestors(w) : IsSet(a, "CanFocus")
    \/ /\ widgets[w].parent # NoHandle
       /\ IsSet(widgets[w].parent, "AlwaysUseable")
       /\ IsSet(widgets[w].parent, "ClickAble")
       /\ IsSet(w, "CanClickBehind")

C18_IgnoredWithoutPermission ==
    [][\A w \in DOMAIN widgets :
        (/\ Handled("press") /\ w = Topmost(mouse_pos)
         /\ ~IsSet(w, "CanFocus") /\ ~PermissionGranted(w))
        => Ignored]_vars

\* A press on a target without permission, under a parent that would have
\* taken the click, was ignored.
C18_Witness ==
    /\ event.kind = "press" /\ ~panicked /\ ~moving
    /\ \E w \in DOMAIN widgets :
        /\ w = Topmost(event.pos)
        /\ ~IsSet(w, "CanFocus") /\ ~PermissionGranted(w)
        /\ widgets[w].parent # NoHandle
        /\ IsSet(widgets[w].parent, "CanMoveWindow")
    /\ log = <<>>

(***************************************************************************)
(* C19.  A modifiers update replaces the Router's active modifier set and  *)
(* changes nothing else, and dispatches no callback; the set it stored is  *)
(* the one every later MousePress dispatch passes, until the next update.  *)
(***************************************************************************)
C19_ModifiersOnly ==
    /\ [][Handled("modifiers") =>
            /\ modifier' = event'.arg
            /\ UNCHANGED <<widgets, callbacks, user_callbacks, name_map, zlist, visible,
                           hidden, focused, over, clicked, mouse_clicked, mouse_pos,
                           new_mouse_pos, moving, button>>
            /\ log' = <<>> /\ ~panicked']_vars
    /\ [][(steps' = steps + 1 /\ event'.kind # "modifiers") =>
            /\ modifier' = modifier
            /\ \A i \in 1..Len(log') :
                log'[i].kind = "MousePress" => log'[i].modifier = modifier]_vars

\* A press dispatched MousePress under the set a modifiers update had
\* stored, with a pointer move between the two.
C19_Witness ==
    /\ event.kind = "press" /\ modifier = 1 /\ steps >= 3
    /\ \E i \in 1..Len(log) : log[i].kind = "MousePress" /\ log[i].modifier = 1

(***************************************************************************)
(* C14.  After every pointer-move event at point P the Router's last       *)
(* pointer position is P, whichever branch was taken: window drag, widget  *)
(* drag accepted, widget drag rejected at the boundary, or hover.  (The    *)
(* fatal platform failure, which ends the run, is left aside.)             *)
(***************************************************************************)
\* A step that handles a pointer move: event_mouse_position called
\* directly, or through handle_events.
Moved == steps' = steps + 1 /\ event'.kind \in {"move", "cursor_moved"}

C14_LastPointerPosition ==
    [][(Moved /\ ~panicked') => mouse_pos' = event'.pos]_vars

(***************************************************************************)
(* C20.  While moving (window drag) is true a pointer move at P requests   *)
(* the window to be repositioned by P minus the click origin and does      *)
(* nothing else: no widget's position or flags change, no PositionChange   *)
(* callback fires and no hover recomputation runs, even when the focused   *)
(* widget has Moving set.                                                  *)
(***************************************************************************)
\* A point of the UI, whose y grows upwards, in the platform's frame, whose
\* y grows downwards (scaled by hidpi).
Platform(p) == <<p[1], screen[2] - p[2]>>

\* P minus the click origin, in the frame of the window position.
WindowDelta ==
    IF event'.kind = "cursor_moved"
    THEN <<Platform(event'.pos)[1] - Platform(mouse_clicked)[1],
           Platform(event'.pos)[2] - Platform(mouse_clicked)[2]>>
    ELSE <<event'.pos[1] - mouse_clicked[1], event'.pos[2] - mouse_clicked[2]>>

C20_WindowDragOnly ==
    [][(Moved /\ moving /\ ~panicked')
       => /\ Len(log') = 1
          /\ log'[1].kind = "set_outer_position" /\ log'[1].pos = WindowDelta
          /\ widgets' = widgets /\ over' = over
          /\ zlist' = zlist /\ focused' = focused /\ clicked' = clicked
          /\ moving']_vars

\* A window drag moved the window, through handle_events, by a delta with
\* a vertical part, while the focused widget had Moving set.
C20_Witness ==
    /\ event.kind = "cursor_moved" /\ moving /\ ~panicked
    /\ focused # NoHandle /\ IsSet(focused, "Moving")
    /\ Len(log) = 1 /\ log[1].kind = "set_outer_position"
    /\ log[1].pos[1] # 0 /\ log[1].pos[2] # 0

(***************************************************************************)
(* C21.  A pointer move during a window drag whose platform call for the   *)
(* window's position fails is fatal: the handler panics instead of         *)
(* skipping the window move, none of the remaining state updates is        *)
(* applied (the last pointer position keeps its value, no widget, hover or *)
(* focus changes, no callback fires), and no later event is handled.       *)
(***************************************************************************)
\* The window was asked to move during the step.
WindowMoveRequested == \E i \in 1..Len(log') : log'[i].kind = "set_outer_position"

C21_PlatformFailureFatal ==
    [][/\ ~panicked
       /\ (Moved /\ moving /\ ~WindowMoveRequested)
          => /\ panicked'
             /\ Len(log') = 1 /\ log'[1].kind = "panic"
             /\ log'[1].tier = "Not Supported. This will be a Soft warning via log later on."
             /\ mouse_pos' = mouse_pos
             /\ widgets' = widgets /\ zlist' = zlist /\ over' = over
             /\ focused' = focused /\ clicked' = clicked /\ moving']_vars

\* A window drag ended in the panic, through handle_events, at a point
\* other than the last pointer position.
C21_Witness ==
    /\ event.kind = "cursor_moved" /\ panicked /\ moving
    /\ Len(log) = 1 /\ log[1].kind = "panic"
    /\ log[1].tier = "Not Supported. This will be a Soft warning via log later on."
    /\ mouse_pos # event.pos

(***************************************************************************)
(* C22.  Drawing a frame calls draw once on each handle of the Z-Order, in *)
(* the order of the sequence, up to and including the first widget whose   *)
(* draw fails; that failure is returned as Err without a panic and no      *)
(* later widget is drawn; without a failure every widget is drawn and Ok   *)
(* is returned.  The Router's state and the Z-Order are unchanged.         *)
(***************************************************************************)
\* The positions of the Z-Order whose widget fails to draw.
FailingAt(failing) == {i \in 1..Len(zlist) : zlist[i] \in failing}

RouterUnchanged ==
    /\ widgets' = widgets /\ zlist' = zlist /\ visible' = visible /\ hidden' = hidden
    /\ focused' = focused /\ over' = over /\ clicked' = clicked /\ moving' = moving
    /\ mouse_pos' = mouse_pos /\ mouse_clicked' = mouse_clicked
    /\ new_mouse_pos' = new_mouse_pos /\ button' = button /\ modifier' = modifier
    /\ callbacks' = callbacks /\ user_callbacks' = user_callbacks

C22_DrawInOrderUntilError ==
    [][Handled("draw")
       => LET draws == Invocations(log', "draw")
              bad == FailingAt(event'.arg)
              result == log'[Len(log')]
          IN  /\ ~panicked' /\ RouterUnchanged
              /\ result.kind = "return"
              /\ \A i \in 1..Len(draws) : draws[i].h = zlist[i]
              /\ IF bad = {}
                 THEN Len(draws) = Len(zlist) /\ result.tier = "Ok"
                 ELSE /\ result.tier = "Err"
                      /\ \A i \in bad : Len(draws) <= i
                      /\ Len(draws) \in bad]_vars

\* A frame drawn after a press had raised the focused widget: a widget in
\* the middle of the Z-Order failed, with a failing widget after it.
C22_Witness ==
    /\ event.kind = "draw" /\ focused # NoHandle /\ zlist[Len(zlist)] = focused
    /\ log[Len(log)].kind = "return" /\ log[Len(log)].tier = "Err"
    /\ Len(Invocations(log, "draw")) >= 2
    /\ Len(Invocations(log, "draw")) < Len(zlist)
    /\ zlist[Len(zlist)] \in event.arg

(***************************************************************************)
(* C23.  Every handle in the Z-Order, in a child sequence, in a parent     *)
(* field and in focused, clicked and over resolves to a live node of the   *)
(* store, so that no handler reaches the fatal lookup of a stale handle;   *)
(* clear_widgets empties the Z-Order and resets focused, clicked and over  *)
(* together with the store.                                                *)
(***************************************************************************)
Live(h) == h \in DOMAIN widgets

StaleLookups ==
    {"ID Existed but widget does not exist?", "Widget is missing its actions?",
     "Widget is missing its inner UI Type?"}

C23_HandlesLive ==
    /\ \A i \in 1..Len(zlist) : Live(zlist[i])
    /\ \A h \in DOMAIN widgets :
        /\ widgets[h].parent # NoHandle => Live(widgets[h].parent)
        /\ \A i \in 1..Len(widgets[h].children) : Live(widgets[h].children[i])
    /\ focused # NoHandle => Live(focused)
    /\ clicked # NoHandle => Live(clicked)
    /\ over # NoHandle => Live(over)
    /\ \A i \in 1..Len(log) :
        log[i].kind = "panic" => log[i].tier \notin StaleLookups
    /\ event.kind = "clear"
        => /\ widgets = <<>> /\ zlist = <<>>
           /\ focused = NoHandle /\ clicked = NoHandle /\ over = NoHandle

\* The store was cleared after a press had been handled at a point of the
\* scene.
C23_Witness ==
    /\ event.kind = "clear" /\ widgets = <<>> /\ zlist = <<>>
    /\ button # 0 /\ mouse_clicked # <<0, 0>>
    /\ focused = NoHandle /\ clicked = NoHandle

(***************************************************************************)
(* C24.  Original: for a press target that cannot itself focus, if any     *)
(* ancestor of the target, at any depth, has AlwaysUseable, permission is  *)
(* granted and set_clicked runs for the press.                             *)
(***************************************************************************)
\* The press of the step has the target w, which cannot itself focus.
PressOnUnfocusable(w) ==
    /\ Handled("press") /\ w = Topmost(mouse_pos) /\ ~IsSet(w, "CanFocus")

C24_AnyAncestorAlwaysUseable ==
    [][\A w \in DOMAIN widgets :
        (/\ PressOnUnfocusable(w)
         /\ \E a \in Ancestors(w) : IsSet(a, "AlwaysUseable"))
        => Called(log', "set_clicked", w)]_vars

(***************************************************************************)
(* C24, amended.  For a press target that cannot itself focus, AlwaysUseable*)
(* grants permission, set_clicked running for the press, when the target    *)
(* has it itself or when the target has CanClickBehind and its direct       *)
(* parent has AlwaysUseable and ClickAble; an AlwaysUseable ancestor in any *)
(* other place grants nothing: without an ancestor that has CanFocus the    *)
(* press is then ignored.                                                   *)
(***************************************************************************)
AlwaysUseableGrants(w) ==
    \/ IsSet(w, "AlwaysUseable")
    \/ /\ widgets[w].parent # NoHandle
       /\ IsSet(widgets[w].parent, "AlwaysUseable")
       /\ IsSet(widgets[w].parent, "ClickAble")
       /\ IsSet(w, "CanClickBehind")

C24_ParentAlwaysUseable ==
    [][\A w \in DOMAIN widgets :
        PressOnUnfocusable(w)
        => /\ AlwaysUseableGrants(w) => Called(log', "set_clicked", w) /\ ~panicked'
           /\ (/\ ~AlwaysUseableGrants(w)
               /\ \A a \in Ancestors(w) : ~IsSet(a, "CanFocus"))
              => \A h \in DOMAIN widgets : ~Called(log', "set_clicked", h)]_vars

\* A press on a CanClickBehind child of an AlwaysUseable ClickAble parent,
\* neither having CanFocus, ran set_clicked and reached the parent.
C24_Witness ==
    /\ event.kind = "press" /\ ~panicked
    /\ \E w \in DOMAIN widgets :
        /\ w = Topmost(mouse_clicked) /\ ~IsSet(w, "CanFocus")
        /\ ~IsSet(w, "AlwaysUseable") /\ IsSet(w, "CanClickBehind")
        /\ widgets[w].parent # NoHandle
        /\ IsSet(widgets[w].parent, "AlwaysUseable")
        /\ ~IsSet(widgets[w].parent, "CanFocus")
        /\ Called(log, "set_clicked", w)
        /\ widgets[w].parent \in Receivers(log, "MousePress")

(***************************************************************************)
(* C25.  For a press target that cannot itself focus (AlwaysUseable        *)
(* granting nothing: neither the target nor an ancestor has it), the first *)
(* ancestor with CanFocus on the way up grants permission; if that         *)
(* ancestor also has FocusClick, set_clicked runs on the ancestor instead  *)
(* of the target: the ancestor, not the target, receives MousePress(true). *)
(* Otherwise set_clicked runs on the target.                               *)
(***************************************************************************)
\* a is the nearest ancestor of w that has CanFocus.
FirstFocusAncestor(w, a) ==
    /\ a \in Ancestors(w) /\ IsSet(a, "CanFocus")
    /\ \A c \in Ancestors(w) : IsSet(c, "CanFocus") => a \in Ancestors(c) \cup {c}

PressedReceivers(l) ==
    {l[i].h : i \in {j \in 1..Len(l) : l[j].kind = "MousePress" /\ l[j].flag}}

C25_FocusClickAncestorClicked ==
    [][\A w, a \in DOMAIN widgets :
        (/\ PressOnUnfocusable(w) /\ FirstFocusAncestor(w, a)
         /\ \A c \in Ancestors(w) \cup {w} : ~IsSet(c, "AlwaysUseable"))
        => IF IsSet(a, "FocusClick")
           THEN /\ Called(log', "set_clicked", a) /\ ~Called(log', "set_clicked", w)
                /\ a \in PressedReceivers(log') /\ w \notin PressedReceivers(log')
           ELSE Called(log', "set_clicked", w)]_vars

(***************************************************************************)
(* C27.  A drag move is rejected only if an edge of the prospective bounds *)
(* would fall outside the containing bounds: every move whose prospective  *)
(* bounds lie inside them, an edge exactly on the boundary included, is    *)
(* accepted and updates the position.                                      *)
(***************************************************************************)
\* The focused widget is dragged by the pointer move of the step.
WidgetDragged ==
    /\ Handled("move") /\ focused # NoHandle /\ ~moving /\ IsSet(focused, "Moving")

Prospective ==
    Shifted(widgets[focused].bounds,
            <<event'.pos[1] - mouse_pos[1], event'.pos[2] - mouse_pos[2]>>)

C27_BoundaryMoveAccepted ==
    [][WidgetDragged
       => /\ ~EdgeOutside(Prospective, ContainingBounds(focused))
             => widgets'[focused].bounds = Prospective
          /\ widgets'[focused].bounds # Prospective
             => EdgeOutside(Prospective, ContainingBounds(focused))]_vars

(***************************************************************************)
(* C26.  For a widget drag the containing bounds of the acceptance test    *)
(* are the parent's rectangle (x, y, width, height) if the dragged widget  *)
(* has a parent and the viewport (0, 0, width, height) otherwise: a move   *)
(* that keeps the widget strictly inside them is accepted, and a child of  *)
(* a parent that does not lie at the origin never leaves the parent's      *)
(* rectangle.  (The displacement is the one the UI applies, lines 99-100;  *)
(* moves that touch the boundary are C27's.)                               *)
(***************************************************************************)
\* The focused widget is dragged by the cursor move of the step.
UIWidgetDragged ==
    /\ Handled("cursor_moved") /\ focused # NoHandle /\ ~moving
    /\ IsSet(focused, "Moving")

UIProspective ==
    Shifted(widgets[focused].bounds,
            <<event'.pos[1] - mouse_pos[1], (event'.pos[2] - mouse_pos[2]) * (-1)>>)

StrictlyInside(b, c) ==
    /\ c[1] < b[1] /\ c[2] < b[2]
    /\ b[1] + b[3] < c[1] + c[3] /\ b[2] + b[4] < c[2] + c[4]

C26_ContainingBoundsOfParent ==
    [][UIWidgetDragged
       => /\ StrictlyInside(UIProspective, ContainingBounds(focused))
             => widgets'[focused].bounds = UIProspective
          /\ ~EdgeOutside(widgets'[focused].bounds, ContainingBounds(focused))]_vars

(***************************************************************************)
(* C28.  Original: in a press, set_clicked(w) sets Moving on w exactly     *)
(* when w has MoveAble and the click point lies within w's bounds; a press *)
(* sets Moving on at most one widget; a widget without MoveAble never      *)
(* acquires Moving.                                                        *)
(***************************************************************************)
HasMoving(h) == "Moving" \in widgets'[h].actions

\* The widgets that have Moving after the step and had not before.
AcquiredMoving == {h \in DOMAIN widgets : HasMoving(h) /\ ~IsSet(h, "Moving")}

MovingAtMostOne ==
    /\ Handled("press") => Cardinality(AcquiredMoving) <= 1
    /\ \A h \in DOMAIN widgets' : HasMoving(h) => "MoveAble" \in widgets'[h].actions

C28_MovingExactlyMoveAbleInBounds ==
    [][/\ MovingAtMostOne
       /\ \A w \in DOMAIN widgets :
           (Handled("press") /\ Called(log', "set_clicked", w))
           => (HasMoving(w) <=> IsSet(w, "MoveAble") /\ Contains(w, mouse_pos))]_vars

(***************************************************************************)
(* C28, amended.  In a press, set_clicked(w) sets Moving on w exactly when *)
(* w has MoveAble, has no CanClickBehind (such a widget hands the click to *)
(* its parent, or drops it, before Moving is looked at) and the click      *)
(* point lies within w's bounds; a press sets Moving on at most one        *)
(* widget; a widget without MoveAble never acquires Moving.                *)
(***************************************************************************)
C28_MovingUnlessClickBehind ==
    [][/\ MovingAtMostOne
       /\ \A w \in DOMAIN widgets :
           (Handled("press") /\ Called(log', "set_clicked", w))
           => (HasMoving(w) <=> /\ IsSet(w, "MoveAble") /\ ~IsSet(w, "CanClickBehind")
                                /\ Contains(w, mouse_pos))]_vars

\* A press ran set_clicked on a MoveAble widget that cannot focus and set
\* its Moving, nobody else's.
C28_Witness ==
    /\ event.kind = "press" /\ ~panicked
    /\ \E w \in DOMAIN widgets :
        /\ Called(log, "set_clicked", w) /\ ~Called(log, "set_focus", w)
        /\ IsSet(w, "MoveAble") /\ ~IsSet(w, "CanFocus")
        /\ \A h \in DOMAIN widgets : IsSet(h, "Moving") <=> h = w

(***************************************************************************)
(* C29.  Position propagation is pre-order and depth-first: the moved      *)
(* widget's internal PositionChange callback runs before any descendant's, *)
(* every widget's callback runs before those of its own descendants, and   *)
(* children are visited in the order of the child sequence.                *)
(***************************************************************************)
\* The subtree of h in pre-order: h, then the subtrees of its children in
\* the order of the child sequence.
RECURSIVE PreOrder(_)
RECURSIVE PreOrderOf(_, _)
PreOrderOf(children, i) ==
    IF i > Len(children) THEN <<>>
    ELSE PreOrder(children[i]) \o PreOrderOf(children, i + 1)

PreOrder(h) == <<h>> \o PreOrderOf(widgets[h].children, 1)

\* The widgets whose PositionChange callback ran, in the order of the calls.
PositionChanges(l) ==
    LET calls == Invocations(l, "PositionChange")
    IN  [i \in 1..Len(calls) |-> calls[i].h]

C29_PropagationPreOrder ==
    [][\A h \in DOMAIN widgets :
        (Handled("move") /\ widgets'[h].bounds # widgets[h].bounds)
        => PositionChanges(log') =
              SelectSeq(PreOrder(h),
                        LAMBDA d : callbacks[d]["PositionChange"] = "PositionChange")]_vars

\* A propagation called a child, then that child's child, then the child's
\* next sibling.
C29_Witness ==
    /\ event.kind = "move" /\ ~panicked
    /\ \E i \in 1..Len(PositionChanges(log)) :
        /\ i + 3 <= Len(PositionChanges(log)) + 1
        /\ i >= 2
        /\ widgets[PositionChanges(log)[i]].parent = PositionChanges(log)[1]
        /\ widgets[PositionChanges(log)[i + 1]].parent = PositionChanges(log)[i]
        /\ widgets[PositionChanges(log)[i + 2]].parent = PositionChanges(log)[1]

(***************************************************************************)
(* C30.  Each press runs set_clicked at most once and dispatches           *)
(* MousePress(true) to at most one widget, once (one invocation per tier   *)
(* that has a callback); a press on the widget that already has the focus  *)
(* runs set_clicked for it, fires no focus-changed callback and leaves the *)
(* Z-Order and the child sequences unchanged.                              *)
(***************************************************************************)
C30_PressClicksOnce ==
    [][Handled("press")
       => /\ Len(Invocations(log', "set_clicked")) <= 1
          /\ Cardinality(PressedReceivers(log')) <= 1
          /\ \A h \in PressedReceivers(log') :
                Invocations(log', "MousePress") = Dispatch(h, TRUE, button', modifier')
          /\ \A w \in DOMAIN widgets :
                (w = Topmost(mouse_pos) /\ IsSet(w, "CanFocus") /\ focused = w)
                => /\ Called(log', "set_clicked", w)
                   /\ Invocations(log', "FocusChange") = <<>>
                   /\ ~Called(log', "set_focus", w)
                   /\ SequencesUnchanged /\ focused' = w
                   /\ ~panicked']_vars

\* A second press on the focused widget: set_clicked ran and dispatched
\* MousePress(true) to it, no focus was set.
C30_Witness ==
    /\ event.kind = "press" /\ ~panicked /\ focused # NoHandle
    /\ focused = Topmost(mouse_clicked)
    /\ Called(log, "set_clicked", focused)
    /\ \A h \in DOMAIN widgets : ~Called(log, "set_focus", h)
    /\ PressedReceivers(log) = {focused}
    /\ Invocations(log, "FocusChange") = <<>>

(***************************************************************************)
(* C31.  A pointer move changes the position of at most one widget, and    *)
(* only of the widget Router.focused names, while that widget's Moving     *)
(* flag is set and no window drag is active; a widget whose Moving flag is *)
(* set but which is not the focused one is never moved.                    *)
(***************************************************************************)
\* The widgets whose bounds the step changes.
Repositioned == {h \in DOMAIN widgets : widgets'[h].bounds # widgets[h].bounds}

C31_OnlyFocusedMovingMoves ==
    [][Moved
       => /\ Cardinality(Repositioned) <= 1
          /\ \A h \in Repositioned :
                h = focused /\ IsSet(h, "Moving") /\ ~moving]_vars

\* A pointer move dragged the focused widget while another widget, whose
\* Moving flag is set, stayed where the scene put it.
C31_Witness ==
    /\ event.kind \in {"move", "cursor_moved"} /\ ~panicked
    /\ focused # NoHandle /\ IsSet(focused, "Moving")
    /\ \E i \in 1..Len(log) : log[i].kind = "PositionChange" /\ log[i].h = focused
    /\ \E g \in DOMAIN widgets :
        /\ g # focused /\ IsSet(g, "Moving")
        /\ \E sc \in Scenes :
            /\ DOMAIN sc.widgets = DOMAIN widgets
            /\ sc.widgets[g].bounds = widgets[g].bounds
            /\ sc.widgets[focused].bounds # widgets[focused].bounds

(***************************************************************************)
(* C32.  During the handling of an event no mutable borrow of a widget     *)
(* node is taken while another borrow of the same node, shared or mutable, *)
(* is outstanding (and no shared one while a mutable one is): no handler   *)
(* is left by the panic of RefCell, in callback dispatch, in the           *)
(* re-ordering of a focused child inside its parent's child sequence, or   *)
(* in the position propagation.                                            *)
(***************************************************************************)
BorrowPanics == {"BorrowMutError", "BorrowError"}

C32_NoOverlappingBorrow ==
    \A i \in 1..Len(log) : log[i].kind = "panic" => log[i].tier \notin BorrowPanics

(***************************************************************************)
(* C33.  Every event handler runs to its end: on a finite acyclic widget   *)
(* tree the hit-test scan, the walk over the ancestors and the position    *)
(* propagation terminate (after them the handler returns, or ends the      *)
(* process by a panic), and no event is taken up while a handler is in     *)
(* progress: an event's state changes and callbacks are done before the    *)
(* next event is considered.                                               *)
(***************************************************************************)
InLoop == pc.op \in {"scan", "walk", "propagate"}

InProgress == pc.op # "idle"

\* While a handler is in progress no other event is taken up and the
\* router's fields are written by that handler's return only.
OneEventAtATime ==
    [][/\ steps' = steps + 1 => pc.op \in {"idle", "return"} /\ ~InProgress'
       /\ (InProgress /\ InProgress')
          => /\ RouterUnchanged /\ log' = log /\ event' = event
             /\ IF pc.op = "propagate" \/ (pc.op = "return" /\ pc.of = "move")
                THEN pc'.op \in {"propagate", "return"} /\ pc'.position = pc.position
                ELSE /\ pc'.op \in {"scan", "walk", "return"}
                     /\ pc'.b = pc.b /\ pc'.pressed = pc.pressed]_vars

C33_LoopsTerminate ==
    /\ InLoop ~> ~InLoop
    /\ OneEventAtATime

\* The walk of is_parent_focused has gone past the target's parent, which
\* granted nothing, to the grandparent.
C33_Witness ==
    /\ pc.op = "walk" /\ pc.parent_opt # NoHandle
    /\ widgets[pc.h].parent # pc.parent_opt
    /\ widgets[widgets[pc.h].parent].parent = pc.parent_opt

(***************************************************************************)
(* C34.  Router.focused never goes from Some to None through input events: *)
(* presses that miss, presses on widgets that cannot focus, releases,      *)
(* pointer moves and modifier updates leave it unchanged; it changes only  *)
(* when a press targets another CanFocus widget, which it then names, or   *)
(* on manual focus, and is reset only by clear_widgets.                    *)
(***************************************************************************)
C34_FocusKept ==
    [][steps' = steps + 1
       => /\ (focused # NoHandle /\ focused' = NoHandle) => event'.kind = "clear"
          /\ focused' # focused
             => \/ event'.kind = "clear" /\ focused' = NoHandle
                \/ event'.kind = "manual_focus" /\ focused' = event'.arg
                \/ /\ event'.kind = "press"
                   /\ focused' = Topmost(mouse_pos)
                   /\ IsSet(focused', "CanFocus")]_vars

\* A widget kept the focus through a press on a widget that cannot focus.
C34_Witness ==
    /\ event.kind = "press" /\ ~panicked /\ focused # NoHandle
    /\ Topmost(mouse_clicked) # NoHandle
    /\ ~IsSet(Topmost(mouse_clicked), "CanFocus")
    /\ Called(log, "set_clicked", Topmost(mouse_clicked))

(***************************************************************************)
(* C35.  clear_widgets empties the widget store, the Z-Order, the visible  *)
(* and hidden sequences, both callback tables and the name map and sets    *)
(* focused, over and clicked to None; it leaves moving, the pointer        *)
(* positions (current, last, click origin), the active button and the      *)
(* modifiers unchanged.                                                    *)
(***************************************************************************)
C35_ClearFrame ==
    [][Handled("clear")
       => /\ widgets' = <<>> /\ zlist' = <<>> /\ visible' = <<>> /\ hidden' = <<>>
          /\ callbacks' = <<>> /\ user_callbacks' = <<>> /\ name_map' = <<>>
          /\ focused' = NoHandle /\ over' = NoHandle /\ clicked' = NoHandle
          /\ moving' = moving /\ mouse_pos' = mouse_pos
          /\ new_mouse_pos' = new_mouse_pos /\ mouse_clicked' = mouse_clicked
          /\ button' = button /\ modifier' = modifier
          /\ ~panicked' /\ log' = <<>>]_vars

\* The store was cleared in the middle of a window drag: the drag, the
\* pointer, the click origin and the button are still there.
C35_Witness ==
    /\ event.kind = "clear" /\ widgets = <<>> /\ zlist = <<>> /\ name_map = <<>>
    /\ focused = NoHandle
    /\ moving /\ button # 0
    /\ mouse_pos # <<0, 0>> /\ mouse_clicked = mouse_pos

(***************************************************************************)
(* C36.  A press whose target has CanClickBehind but no parent dispatches  *)
(* no MousePress callback to any widget and sets no Moving flag; when the  *)
(* target has a parent, clicked becomes the parent's handle and the        *)
(* target's Moving flag is not set even if the target is MoveAble.         *)
(***************************************************************************)
C36_ClickBehind ==
    [][\A w \in DOMAIN widgets :
        (/\ Handled("press") /\ Called(log', "set_clicked", w)
         /\ IsSet(w, "CanClickBehind"))
        => IF widgets[w].parent = NoHandle
           THEN /\ Receivers(log', "MousePress") = {}
                /\ AcquiredMoving = {}
                /\ clicked' = clicked
           ELSE /\ clicked' = widgets[w].parent
                /\ w \notin AcquiredMoving]_vars

\* A press was passed from a MoveAble child under the pointer to its parent.
C36_Witness ==
    /\ event.kind = "press" /\ ~panicked
    /\ \E w \in DOMAIN widgets :
        /\ Called(log, "set_clicked", w)
        /\ IsSet(w, "CanClickBehind") /\ IsSet(w, "MoveAble")
        /\ Contains(w, mouse_clicked)
        /\ widgets[w].parent # NoHandle /\ clicked = widgets[w].parent
        /\ ~IsSet(w, "Moving")
        /\ widgets[w].parent \in Receivers(log, "MousePress")

\* A press ran set_clicked on a MoveAble widget that has CanClickBehind, no
\* parent and a MousePress callback, and nothing was dispatched.
C36_NoParentPress ==
    /\ event.kind = "press" /\ ~panicked
    /\ \E w \in DOMAIN widgets :
        /\ Called(log, "set_clicked", w)
        /\ IsSet(w, "CanClickBehind") /\ IsSet(w, "MoveAble")
        /\ Contains(w, mouse_clicked)
        /\ widgets[w].parent = NoHandle
        /\ user_callbacks[w]["MousePress"] = "MousePress"
        /\ Receivers(log, "MousePress") = {}

(***************************************************************************)
(* InputHandler (src/input/src/handler.rs).                                *)
(***************************************************************************)
\* Bound of the model: |mouse_delta| per axis.
MaxDelta == 1

\* window.id() of the handler's window, and another window's id.
WindowIds == {"own", "other"}
VirtualKeyCodes == {"A", "B"}
ScanCodes == {30, 48}
MouseButtons == {"Left"}
ElementStates == {"Pressed", "Released"}

\* Event<()>: the window events and device events update looks at, and one
\* of every other kind.
InputEvents ==
         [type : {"WindowEvent"}, window_id : WindowIds, event : {"KeyboardInput"},
          state : ElementStates,
          virtual_keycode : {None} \cup {Some(k) : k \in VirtualKeyCodes},
          scancode : ScanCodes]
    \cup [type : {"WindowEvent"}, window_id : WindowIds, event : {"MouseInput"},
          state : ElementStates, button : MouseButtons]
    \cup [type : {"WindowEvent"}, window_id : WindowIds, event : {"CursorMoved"},
          position : {<<3, 5>>}]
    \cup [type : {"WindowEvent"}, window_id : WindowIds, event : {"Focused"},
          focused : BOOLEAN]
    \cup [type : {"DeviceEvent"}, event : {"MouseMotion"},
          delta : {<<1, 0>>, <<-1, 0>>}]
    \cup [type : {"DeviceEvent"}, event : {"MouseWheel"}, unit : {"LineDelta"},
          delta : {<<2, 0>>, <<0, -3>>}]
    \cup [type : {"DeviceEvent"}, event : {"MouseWheel"}, unit : {"PixelDelta"},
          delta : {<<-4, 0>>}]
    \cup [type : {"DeviceEvent"}, event : {"Key"}]
    \cup [type : {"MainEventsCleared"}]

signum(x) == IF x > 0 THEN 1 ELSE IF x < 0 THEN -1 ELSE 0

\* pub fn update(&mut self, window, event, hidpi)
update(h, window, e, hidpi) ==
    IF e.type = "WindowEvent" /\ e.window_id = window
    THEN IF e.event = "KeyboardInput" /\ e.virtual_keycode # None
         THEN IF e.state = "Pressed"
              THEN [h EXCEPT !.keys = @ \cup {e.virtual_keycode[1]},
                             !.scan_codes = @ \cup {e.scancode}]
              ELSE [h EXCEPT !.keys = @ \ {e.virtual_keycode[1]},
                             !.scan_codes = @ \ {e.scancode}]
         ELSE IF e.event = "MouseInput"
         THEN IF e.state = "Pressed"
              THEN [h EXCEPT !.mouse_buttons = @ \cup {e.button}]
              ELSE [h EXCEPT !.mouse_buttons = @ \ {e.button}]
         ELSE IF e.event = "CursorMoved"
         THEN [h EXCEPT !.mouse_position =
                   Some(<<e.position[1] * hidpi, e.position[2] * hidpi>>)]
         ELSE IF e.event = "Focused" /\ ~e.focused
         THEN [h EXCEPT !.keys = {}, !.scan_codes = {}, !.mouse_buttons = {}]
         ELSE h
    ELSE IF e.type = "DeviceEvent"
    THEN IF e.event = "MouseMotion"
         THEN [h EXCEPT !.mouse_delta = <<@[1] - e.delta[1], @[2] - e.delta[2]>>]
         ELSE IF e.event = "MouseWheel"
         THEN [h EXCEPT !.mouse_wheel =
                   <<IF e.delta[1] # 0 THEN signum(e.delta[1]) ELSE @[1],
                     IF e.delta[2] # 0 THEN signum(e.delta[2]) ELSE @[2]>>]
         ELSE h
    ELSE h

is_key_down(h, key) == key \in h.keys
is_mouse_button_down(h, b) == b \in h.mouse_buttons
is_scan_code_down(h, scan_code) == scan_code \in h.scan_codes

\* The router as Widgets::new leaves it, and not used.
RouterNew ==
    /\ widgets = <<>> /\ callbacks = <<>> /\ user_callbacks = <<>> /\ name_map = <<>>
    /\ zlist = <<>> /\ visible = <<>> /\ hidden = <<>>
    /\ focused = NoHandle /\ over = NoHandle /\ clicked = NoHandle
    /\ mouse_clicked = <<0, 0>> /\ mouse_pos = <<0, 0>> /\ new_mouse_pos = <<0, 0>>
    /\ moving = FALSE /\ button = 0 /\ modifier = 0
    /\ screen = <<0, 0>> /\ points = {}
    /\ log = <<>> /\ panicked = FALSE /\ steps = 0 /\ pc = Idle

InitInput ==
    /\ RouterNew
    /\ input = InputHandler_new
    /\ textures = MapTextures_new(0)
    /\ rect = Rect_default(FALSE)
    /\ event = [kind |-> "new", pos |-> <<0, 0>>, arg |-> 0]

InDeltaRange(h) ==
    \A i \in 1..2 : -MaxDelta <= h.mouse_delta[i] /\ h.mouse_delta[i] <= MaxDelta

\* main.rs 324: input_handler.update(renderer.window(), &event, 1.0)
UpdateInput ==
    \E e \in InputEvents :
        /\ InDeltaRange(update(input, "own", e, 1))
        /\ input' = update(input, "own", e, 1)
        /\ event' = [kind |-> "update", pos |-> <<0, 0>>, arg |-> e]
        /\ UNCHANGED <<widgets, callbacks, user_callbacks, name_map, zlist, visible,
                       hidden, focused, over, clicked, mouse_clicked, mouse_pos,
                       new_mouse_pos, moving, button, modifier, screen, points, log,
                       panicked, steps, pc, textures, rect>>

NextInput == UpdateInput

SpecInput == InitInput /\ [][NextInput]_vars

(***************************************************************************)
(* C37.  After update has processed Focused(false) for its own window,     *)
(* is_key_down, is_scan_code_down and is_mouse_button_down are false for   *)
(* every key and button until a later Pressed event for it; between focus  *)
(* losses a key or button is reported down exactly when its most recent    *)
(* event for this window was Pressed; window events of another window      *)
(* change no pressed state.  Step by step: an event of this window for a   *)
(* key, scan code or button leaves it down exactly when it is Pressed, a   *)
(* focus loss leaves nothing down, and nothing else changes what is down.  *)
(***************************************************************************)
OwnWindowEvent(e, kind) ==
    e.type = "WindowEvent" /\ e.window_id = "own" /\ e.event = kind

C37_PressedState ==
    [][event'.kind = "update" =>
        LET e == event'.arg
            keys_else == \A k \in VirtualKeyCodes :
                (OwnWindowEvent(e, "KeyboardInput") /\ e.virtual_keycode = Some(k))
                \/ (is_key_down(input', k) <=> is_key_down(input, k))
            scans_else == \A c \in ScanCodes :
                (OwnWindowEvent(e, "KeyboardInput") /\ e.scancode = c)
                \/ (is_scan_code_down(input', c) <=> is_scan_code_down(input, c))
            buttons_else == \A b \in MouseButtons :
                (OwnWindowEvent(e, "MouseInput") /\ e.button = b)
                \/ (is_mouse_button_down(input', b) <=> is_mouse_button_down(input, b))
        IN  IF OwnWindowEvent(e, "Focused") /\ ~e.focused
            THEN /\ \A k \in VirtualKeyCodes : ~is_key_down(input', k)
                 /\ \A c \in ScanCodes : ~is_scan_code_down(input', c)
                 /\ \A b \in MouseButtons : ~is_mouse_button_down(input', b)
            ELSE /\ keys_else /\ scans_else /\ buttons_else
                 /\ OwnWindowEvent(e, "KeyboardInput")
                    => /\ is_scan_code_down(input', e.scancode) <=> e.state = "Pressed"
                       /\ e.virtual_keycode # None
                          => (is_key_down(input', e.virtual_keycode[1])
                              <=> e.state = "Pressed")
                 /\ OwnWindowEvent(e, "MouseInput")
                    => (is_mouse_button_down(input', e.button) <=> e.state = "Pressed")]_vars

(***************************************************************************)
(* MapTextures (src/demo/src/graphics/maps/texture.rs): the layer ids.     *)
(***************************************************************************)
\* Bound of the model: the largest count MapTextures::new is called with.
MaxCount == 3

\* pub fn get_unused_id: self.unused_ids.pop()
get_unused_id(t) ==
    IF t.unused_ids = <<>> THEN [ret |-> None, t |-> t]
    ELSE [ret |-> Some(t.unused_ids[Len(t.unused_ids)]),
          t |-> [t EXCEPT !.unused_ids = SubSeq(@, 1, Len(@) - 1)]]

\* mark_id_unused that pushes the id twice.
mark_id_unused_twice(t, id) == [t EXCEPT !.unused_ids = Append(Append(@, id), id)]

\* pub fn mark_id_unused: self.unused_ids.push(id)
mark_id_unused(t, id) == [t EXCEPT !.unused_ids = Append(@, id)]

InitTextures ==
    /\ RouterNew
    /\ input = InputHandler_new
    /\ \E count \in 0..MaxCount : textures = MapTextures_new(count)
    /\ rect = Rect_default(FALSE)
    /\ event = [kind |-> "new", pos |-> <<0, 0>>, arg |-> 0]

\* The router, the input handler and the rectangle are not touched.
TexturesOnly ==
    UNCHANGED <<widgets, callbacks, user_callbacks, name_map, zlist, visible,
                hidden, focused, over, clicked, mouse_clicked, mouse_pos,
                new_mouse_pos, moving, button, modifier, screen, points, log,
                panicked, steps, pc, input, rect>>

\* A caller takes an id and holds it.
GetUnusedId ==
    LET r == get_unused_id(textures)
    IN  /\ textures' = [r.t EXCEPT !.held = IF r.ret = None THEN @ ELSE @ \cup {r.ret[1]}]
        /\ event' = [kind |-> "get_unused_id", pos |-> <<0, 0>>, arg |-> r.ret]
        /\ TexturesOnly

\* A caller gives an id back: one it holds, or (misuse) any other u32.  The
\* vector is let grow to one entry more than count.
MarkIdUnused ==
    \E id \in 0..textures.count :
        /\ Len(textures.unused_ids) <= textures.count
        /\ textures' = [mark_id_unused(textures, id) EXCEPT
                            !.held = @ \ {id},
                            !.misused = @ \/ id \notin textures.held]
        /\ event' = [kind |-> "mark_id_unused", pos |-> <<0, 0>>, arg |-> id]
        /\ TexturesOnly

NextTextures ==
    \/ GetUnusedId
    \/ MarkIdUnused

SpecTextures == InitTextures /\ [][NextTextures]_vars

(***************************************************************************)
(* C38.  Starting from new(count), as long as mark_id_unused is called     *)
(* only with an id that is handed out and not yet given back,              *)
(* get_unused_id never returns an id that is handed out, every id it       *)
(* returns is below count, and it returns None exactly when all count ids  *)
(* are handed out.                                                         *)
(***************************************************************************)
C38_FreshIds ==
    [][(event'.kind = "get_unused_id" /\ ~textures.misused)
       => LET ret == event'.arg
          IN  /\ ret # None => ret[1] \notin textures.held /\ ret[1] < textures.count
              /\ ret = None <=> textures.held = 0..(textures.count - 1)]_vars

\* get_unused_id returned an id that had been given back: it is lower than
\* an id that is still unused, which the first pops never are.
C38_Witness ==
    /\ event.kind = "get_unused_id" /\ ~textures.misused /\ event.arg # None
    /\ event.arg[1] \in textures.held
    /\ \E i \in 1..Len(textures.unused_ids) : event.arg[1] < textures.unused_ids[i]

(***************************************************************************)
(* Rect (src/graphics/src/shapes/rectangle.rs).                            *)
(***************************************************************************)
\* u16: the values of a u16 are 0 .. U16 - 1.
U16 == 65536

\* The allocations the atlas hands out: rect() = (u, v, width, height) in
\* u32, and the layer.
Allocations ==
    {[u |-> 2, v |-> 65537, width |-> 4, height |-> 16, layer |-> 0],
     [u |-> 8, v |-> 0, width |-> 65540, height |-> 2, layer |-> 1]}

\* The offsets the callers set: [u16; 4].
Uvs == {<<1, 1, 8, 8>>, <<65535, 0, 3, 20>>}

\* `x as u16`, u16::saturating_add and cmp::min.
as_u16(x) == x % U16
saturating_add(a, b) == IF a + b > U16 - 1 THEN U16 - 1 ELSE a + b
min(a, b) == IF a <= b THEN a ELSE b

\* The [u16; 4] of lines 150-155 and 158-163.
quad_data(uv, tex) ==
    <<saturating_add(uv[1], as_u16(tex.u)), saturating_add(uv[2], as_u16(tex.v)),
      min(uv[3], as_u16(tex.width)), min(uv[4], as_u16(tex.height))>>

\* The RectVertex of lines 165-178.
rect_vertex(r, containter_tex, border_tex) ==
    [position |-> r.position, size |-> r.size, border_width |-> r.border_width,
     radius |-> r.radius,
     container_data |-> quad_data(r.container_uv, containter_tex),
     border_data |-> quad_data(r.border_uv, border_tex),
     layer |-> containter_tex.layer, border_layer |-> border_tex.layer]

\* bytemuck::cast_slice(&rects).to_vec(): the fields of the vertices in the
\* order of the struct.
cast_slice(rects) ==
    [i \in 1..Len(rects) |->
        <<rects[i].position, rects[i].size, rects[i].border_width, rects[i].radius,
          rects[i].container_data, rects[i].border_data, rects[i].layer,
          rects[i].border_layer>>]

\* pub fn create_quad
create_quad(r) ==
    IF r.container = None THEN r
    ELSE IF r.border = None THEN r
    ELSE [r EXCEPT !.bytes = cast_slice(<<rect_vertex(r, r.container[1], r.border[1])>>)]

\* pub fn update(&mut self) -> bool
rect_update(r) ==
    IF r.changed
    THEN [ret |-> TRUE, r |-> [create_quad(r) EXCEPT !.changed = FALSE]]
    ELSE [ret |-> FALSE, r |-> r]

\* set_color / set_border_color: the allocation is what add_color returns.
set_color(r, allocation) == [r EXCEPT !.container = allocation, !.changed = TRUE]
set_border_color(r, allocation) == [r EXCEPT !.border = allocation, !.changed = TRUE]

\* set_texture / set_border_texture: loaded is None when from_file or
\* group_upload failed and `?` returned the error.
set_texture(r, loaded) ==
    IF loaded = None THEN r ELSE [r EXCEPT !.container = loaded, !.changed = TRUE]
set_border_texture(r, loaded) ==
    IF loaded = None THEN r ELSE [r EXCEPT !.border = loaded, !.changed = TRUE]

set_container_uv(r, uv) == [r EXCEPT !.container_uv = uv, !.changed = TRUE]
set_border_uv(r, uv) == [r EXCEPT !.border_uv = uv, !.changed = TRUE]

InitRect ==
    /\ RouterNew
    /\ input = InputHandler_new
    /\ textures = MapTextures_new(0)
    /\ \E changed \in BOOLEAN : rect = Rect_default(changed)
    /\ event = [kind |-> "new", pos |-> <<0, 0>>, arg |-> 0]

\* The router, the input handler and the layer ids are not touched.
RectOnly ==
    UNCHANGED <<widgets, callbacks, user_callbacks, name_map, zlist, visible,
                hidden, focused, over, clicked, mouse_clicked, mouse_pos,
                new_mouse_pos, moving, button, modifier, screen, points, log,
                panicked, steps, pc, input, textures>>

\* The calls on the rectangle; `event` keeps the call and what it returned.
RectEvent(name, ret) == [kind |-> name, pos |-> <<0, 0>>, arg |-> ret]

OptionalAllocations == {None} \cup {Some(a) : a \in Allocations}

SetColor ==
    \E a \in OptionalAllocations :
        /\ rect' = set_color(rect, a)
        /\ event' = RectEvent("set_color", a)
        /\ RectOnly

SetBorderColor ==
    \E a \in OptionalAllocations :
        /\ rect' = set_border_color(rect, a)
        /\ event' = RectEvent("set_border_color", a)
        /\ RectOnly

SetTexture ==
    \E a \in OptionalAllocations :
        /\ rect' = set_texture(rect, a)
        /\ event' = RectEvent("set_texture", a)
        /\ RectOnly

SetBorderTexture ==
    \E a \in OptionalAllocations :
        /\ rect' = set_border_texture(rect, a)
        /\ event' = RectEvent("set_border_texture", a)
        /\ RectOnly

SetContainerUv ==
    \E uv \in Uvs :
        /\ rect' = set_container_uv(rect, uv)
        /\ event' = RectEvent("set_container_uv", uv)
        /\ RectOnly

SetBorderUv ==
    \E uv \in Uvs :
        /\ rect' = set_border_uv(rect, uv)
        /\ event' = RectEvent("set_border_uv", uv)
        /\ RectOnly

UpdateRect ==
    /\ rect' = rect_update(rect).r
    /\ event' = RectEvent("update", rect_update(rect).ret)
    /\ RectOnly

NextRect ==
    \/ SetColor
    \/ SetBorderColor
    \/ SetTexture
    \/ SetBorderTexture
    \/ SetContainerUv
    \/ SetBorderUv
    \/ UpdateRect

SpecRect == InitRect /\ [][NextRect]_vars

(***************************************************************************)
(* C39.  Rect::update returns true exactly when the changed flag was set   *)
(* since the previous update, and clears the flag, so that a second update *)
(* in a row returns false; whenever it returns true the bytes buffer has   *)
(* been rebuilt from the rectangle's current fields.                       *)
(***************************************************************************)
\* bytes is the quad of the fields of r.
Rebuilt(r) ==
    /\ r.container # None /\ r.border # None
    /\ r.bytes = cast_slice(<<rect_vertex(r, r.container[1], r.border[1])>>)

C39_UpdateRebuilds ==
    [][event'.kind = "update"
       => /\ event'.arg <=> rect.changed
          /\ ~rect'.changed
          /\ event'.arg => Rebuilt(rect')]_vars

====
